---- MODULE Spec2Model ----
(***************************************************************************)
(* State-machine model of the weapon-message-service chat relay:           *)
(*   AuthService   (token fast-check, full verify, fast verify)            *)
(*   RedisService  (presence keys, online set, token cache)                *)
(*   ChatGateway   (connection lifecycle and per-event handlers)           *)
(*                                                                         *)
(* Every handler is cut at its awaits.  A Redis command takes effect when  *)
(* it is issued: ioredis writes commands to one connection in call order   *)
(* and Redis executes them in that order, so the synchronous code before   *)
(* an await and the command the await issues form one atomic step; the     *)
(* handler then stays suspended until the reply step.                      *)
(***************************************************************************)
EXTENDS Integers, FiniteSets, Sequences, TLC

\* ------------------------------------------------------------------ values

\* null / undefined of a numeric JavaScript value
Null == -1

\* JavaScript truthiness of a number-or-null: `if (x)` / `!x`
Truthy(n) == n # Null /\ n # 0

\* TTL of user:{id}:online, seconds
PresenceTTL == 300

\* TTL of token:{token}:user, seconds
TokenCacheTTL == 600

\* how many times the clock advances in a run
MaxTicks == 1

\* how many Redis commands may be rejected in a run
MaxFaults == 1

\* The clock is observed at multiples of the presence TTL.
StartTime == PresenceTTL
EndTime == StartTime + MaxTicks * PresenceTTL
FarFuture == EndTime + PresenceTTL

Users == {1, 2}
Conns == {"c1", "c2"}

\* ------------------------------------------------------------------ tokens

\* A bearer token is what jwt.decode makes of it: nothing (malformed), or a
\* payload with an optional id and an optional exp.  "empty" is the missing
\* / empty string.
NoToken == [kind |-> "empty", id |-> Null, exp |-> Null]
Garbage == [kind |-> "malformed", id |-> Null, exp |-> Null]
Tok(id, exp) == [kind |-> "jwt", id |-> id, exp |-> exp]

\* exp claims: none, 0, already past at StartTime, passing after the first
\* tick, passing exactly at the second instant, never within the run
ExpValues == {Null, 0, PresenceTTL \div 2, StartTime + PresenceTTL \div 2,
              StartTime + PresenceTTL, FarFuture}
IdValues == {Null, 0} \cup Users

JwtTokens == {Tok(i, e) : i \in IdValues, e \in ExpValues}
Tokens == {NoToken, Garbage} \cup JwtTokens

\* `!token`
TokenGiven(t) == t.kind # "empty"

\* jwt.decode(token): null for a token that does not parse
JwtDecode(t) ==
  IF t.kind = "jwt"
  THEN [isNull |-> FALSE, id |-> t.id, exp |-> t.exp]
  ELSE [isNull |-> TRUE, id |-> Null, exp |-> Null]

\* AuthService.parseTokenLocally at time `clock` (seconds)
ParseTokenLocally(t, clock) ==
  LET decoded == JwtDecode(t) IN
  IF decoded.isNull \/ ~Truthy(decoded.id) THEN Null
  ELSE IF Truthy(decoded.exp) /\ decoded.exp < clock THEN Null
  ELSE decoded.id

\* ------------------------------------------------------- identity service

NetCodes == {"ECONNREFUSED", "ETIMEDOUT", "ENOTFOUND", "ECONNABORTED"}
FallbackStatuses == {500, 502, 503, 504}
RejectStatuses == {401, 403}
OtherStatuses == {400, 404, 429}

NoOutcome == [kind |-> "none", dataId |-> Null, code |-> "", status |-> Null]

\* the identity service accepts a token until its exp claim is reached
ServiceAccepts(t, clock) == t.kind = "jwt" /\ (t.exp = Null \/ t.exp > clock)

\* What one GET /api/users/me can end in for token t at time `clock`.  A 200
\* carries the user the token belongs to, and is given only to a token the
\* service accepts (or it carries a body without id); an HTTP error carries
\* its status and axios' code for it; a network failure carries only a code;
\* "thrown" is a failure that is no AxiosError.
RemoteOutcomes(t, clock) ==
  {[kind |-> "ok", dataId |-> d, code |-> "", status |-> 200] :
     d \in (IF ServiceAccepts(t, clock) THEN {t.id, Null} ELSE {Null})}
  \cup {[kind |-> "axios", dataId |-> Null, code |-> "ERR_BAD_REQUEST", status |-> s] :
          s \in RejectStatuses \cup OtherStatuses}
  \cup {[kind |-> "axios", dataId |-> Null, code |-> "ERR_BAD_RESPONSE", status |-> s] :
          s \in FallbackStatuses}
  \cup {[kind |-> "axios", dataId |-> Null, code |-> c, status |-> Null] :
          c \in NetCodes \cup {"ERR_NETWORK"}}
  \cup {[kind |-> "thrown", dataId |-> Null, code |-> "", status |-> Null]}

\* the value a call hands back: an id, null, or an exception
Ret(id) == [thrown |-> FALSE, id |-> id]
Thrown == [thrown |-> TRUE, id |-> Null]
NoRet == Ret(Null)

\* a mutant of the catch block of verifyToken: 401 is not singled out
VerifyCatchNo401(o, localUserId) ==
  IF o.kind = "axios" /\ o.code \in NetCodes
  THEN IF Truthy(localUserId) THEN Ret(localUserId) ELSE Thrown
  ELSE IF o.kind = "axios" /\ o.status = 403 THEN Ret(Null)
  ELSE IF Truthy(localUserId) THEN Ret(localUserId) ELSE Ret(Null)

\* a mutant of the catch block of verifyToken: a network failure rejects
VerifyCatchNoNetFallback(o, localUserId) ==
  IF o.kind = "axios" /\ o.code \in NetCodes THEN Ret(Null)
  ELSE IF o.kind = "axios" /\ o.status \in RejectStatuses THEN Ret(Null)
  ELSE IF Truthy(localUserId) THEN Ret(localUserId) ELSE Ret(Null)

\* a mutant of the catch block of verifyToken: a 5xx answer rejects
VerifyCatchNo5xxFallback(o, localUserId) ==
  IF o.kind = "axios" /\ o.code \in NetCodes
  THEN IF Truthy(localUserId) THEN Ret(localUserId) ELSE Thrown
  ELSE IF o.kind = "axios" /\ o.status \in RejectStatuses THEN Ret(Null)
  ELSE IF o.kind = "axios" /\ o.status \in FallbackStatuses THEN Ret(Null)
  ELSE IF Truthy(localUserId) THEN Ret(localUserId) ELSE Ret(Null)

\* the catch block of verifyToken: what a failed remote call returns
VerifyCatch(o, localUserId) ==
  IF o.kind = "axios" /\ o.code \in NetCodes
  THEN IF Truthy(localUserId) THEN Ret(localUserId) ELSE Thrown
  ELSE IF o.kind = "axios" /\ o.status = 401 THEN Ret(Null)
  ELSE IF o.kind = "axios" /\ o.status = 403 THEN Ret(Null)
  ELSE IF o.kind = "axios" /\ o.status \in FallbackStatuses
  THEN IF Truthy(localUserId) THEN Ret(localUserId) ELSE Ret(Null)
  ELSE IF Truthy(localUserId) THEN Ret(localUserId) ELSE Ret(Null)

\* ------------------------------------------------------------------ state

\* handler instances: the HTTP guard, and per connection the connection
\* handler and the handlers of the events it receives
HttpProc == <<"http", "guard">>
ConnProc(c) == <<c, "connect">>
RefreshProc(c) == <<c, "refresh">>
SendProc(c) == <<c, "send">>
ActProc(c) == <<c, "act">>
Procs == {HttpProc} \cup (Conns \X {"connect", "refresh", "send", "act"})

VARIABLES
  now,          \* Math.floor(Date.now() / 1000), and the Redis server's clock
  faults,       \* Redis commands rejected so far
  tokenCache,   \* Redis keys token:{token}:user
  vf,           \* the verifyToken / verifyTokenFast call of each handler instance
  http,         \* HttpAuthGuard.canActivate of the request in progress
  reqs,         \* HTTP requests made so far
  sock,         \* transport state of each connection
  session,      \* client.userId / client.token of each connection
  userSockets,  \* ChatGateway.userSockets: userId -> set of socket ids
  presence,     \* Redis keys user:{id}:online
  onlineUsers,  \* Redis set online:users
  rooms,        \* socket.io rooms each socket has joined
  emitted,      \* events emitted so far
  hc,           \* handleConnection of each connection
  hd,           \* handleDisconnect of each connection
  hr,           \* handleRefreshToken of each connection
  hm,           \* handleMessage of each connection
  messages,     \* chat.messages, in insertion order; a message's id is its index
  readMessages, \* chat.read_messages: <<message id, user id>>
  notifications,\* offline-notification dispatches made so far
  added,        \* history: the <<userId, socketId>> pairs added to userSockets and not removed since
  ha,           \* the typing, chat:join, chat:create, users:online or message:mark-read handler of each connection
  chats,        \* chat.chats
  typing,       \* Redis keys chat:{chatId}:typing:{userId}
  acts          \* how many events other than auth:refresh-token have arrived so far

authVars == <<now, faults, tokenCache, vf, http, reqs>>
gwVars == <<sock, session, userSockets, presence, onlineUsers, rooms, emitted, hc, hd, hr,
           hm, messages, readMessages, notifications, added, ha, chats, typing, acts>>
vars == <<now, faults, tokenCache, vf, http, reqs, sock, session, userSockets,
          presence, onlineUsers, rooms, emitted, hc, hd, hr, hm, messages, readMessages,
          notifications, added, ha, chats, typing, acts>>

\* what only handleMessage writes
sendVars == <<hm, messages, readMessages, notifications>>

\* what only the other event handlers write
actVars == <<ha, chats, typing, acts>>

\* how many message:send, typing, chat:join, chat:create, users:online and
\* message:mark-read events arrive in a run
MaxActs == 2

\* how many HTTP requests the guard serves in a run
MaxRequests == 2

\* ------------------------------------------------------------------ Redis

\* a mutant of IdToString: the string stored does not spell the id
IdToStringZero(n) == [str |-> 0]

\* userInfo.id.toString() and parseInt(cachedUserId, 10): a stored value is
\* a string, which is truthy whatever number it spells
IdToString(n) == [str |-> n]
ParseInt(s) == s.str

NoEntry == [val |-> IdToString(Null), expireAt |-> 0]

\* a key set with SETEX lives for ttl seconds
Live(e, clock) == clock < e.expireAt
Setex(ttl, v, clock) == [val |-> v, expireAt |-> clock + ttl]

\* redis.get(`token:${token}:user`): the stored string, or nil
TokenCacheGet(t) == IF Live(tokenCache[t], now) THEN tokenCache[t] ELSE NoEntry

\* whether one more Redis command may be rejected
FaultChoices == IF faults < MaxFaults THEN {FALSE, TRUE} ELSE {FALSE}
CountFault(fail) == IF fail THEN faults + 1 ELSE faults

\* -------------------------------------------------------------- AuthService

IdleFrame ==
  [pc |-> "idle", fn |-> "", token |-> NoToken, failed |-> FALSE,
   cached |-> NoEntry, hit |-> FALSE, localUserId |-> Null, at |-> 0,
   outcome |-> NoOutcome, ret |-> NoRet]

Returned(f, r) == [f EXCEPT !.pc = "ret", !.ret = r]

\* The call of the HTTP guard is the observed one: its frame keeps what the
\* call read and decided until the guard resumes.  A gateway handler's frame
\* keeps only what its caller reads, the returned value.
Kept(p, f) ==
  IF p = HttpProc \/ f.pc # "ret" THEN f
  ELSE [IdleFrame EXCEPT !.pc = "ret", !.ret = f.ret]

\* verifyToken(token) up to its first await: `if (!token) return null`,
\* then redis.get is issued
CallVerify(t, fail) ==
  LET f == [IdleFrame EXCEPT !.fn = "verifyToken", !.token = t] IN
  IF ~TokenGiven(t) THEN Returned(f, Ret(Null))
  ELSE [f EXCEPT !.pc = "v_get", !.failed = fail,
                 !.cached = IF fail THEN NoEntry ELSE TokenCacheGet(t)]

\* verifyTokenFast(token) up to its await
CallVerifyFast(t, fail) ==
  LET f == [IdleFrame EXCEPT !.fn = "verifyTokenFast", !.token = t] IN
  IF ~TokenGiven(t) THEN Returned(f, Ret(Null))
  ELSE [f EXCEPT !.pc = "f_get", !.failed = fail,
                 !.cached = IF fail THEN NoEntry ELSE TokenCacheGet(t)]

\* a mutant of AfterCacheGet: the remote call is issued whatever
\* parseTokenLocally yields
AfterCacheGetEscalates(f, clock) ==
  IF f.failed THEN Returned(f, Thrown)
  ELSE IF f.cached # NoEntry
  THEN Returned([f EXCEPT !.hit = TRUE], Ret(ParseInt(f.cached.val)))
  ELSE [f EXCEPT !.localUserId = ParseTokenLocally(f.token, clock), !.at = clock,
                 !.pc = "v_remote"]

\* verifyToken after the reply of redis.get: a hit returns the cached id;
\* else parseTokenLocally, and the remote call is issued
AfterCacheGet(f, clock) ==
  IF f.failed THEN Returned(f, Thrown)
  ELSE IF f.cached # NoEntry
  THEN Returned([f EXCEPT !.hit = TRUE], Ret(ParseInt(f.cached.val)))
  ELSE LET localUserId == ParseTokenLocally(f.token, clock)
           g == [f EXCEPT !.localUserId = localUserId, !.at = clock] IN
       IF ~Truthy(localUserId) THEN Returned(g, Ret(Null))
       ELSE [g EXCEPT !.pc = "v_remote"]

VerifyGetReply(p) ==
  /\ vf[p].pc = "v_get"
  /\ vf' = [vf EXCEPT ![p] = Kept(p, AfterCacheGet(vf[p], now))]
  /\ UNCHANGED <<now, faults, tokenCache, http, reqs>>
  /\ UNCHANGED gwVars
  /\ UNCHANGED actVars

\* the remote call ends: a 200 with an id is cached (setex issued) and
\* returned after the reply; anything else goes through the catch block
VerifyRemoteReply(p) ==
  /\ vf[p].pc = "v_remote"
  /\ \E o \in RemoteOutcomes(vf[p].token, now), fail \in FaultChoices :
       LET f == [vf[p] EXCEPT !.outcome = IF p = HttpProc \/ o.kind = "ok" THEN o
                                           ELSE NoOutcome] IN
       IF o.kind = "ok"
       THEN IF Truthy(o.dataId)
            THEN /\ vf' = [vf EXCEPT ![p] = [f EXCEPT !.pc = "v_setex", !.failed = fail]]
                 /\ tokenCache' =
                      IF fail THEN tokenCache
                      ELSE [tokenCache EXCEPT ![f.token] =
                              Setex(TokenCacheTTL, IdToString(o.dataId), now)]
                 /\ faults' = CountFault(fail)
            ELSE /\ fail = FALSE
                 /\ vf' = [vf EXCEPT ![p] = Kept(p, Returned(f, Ret(Null)))]
                 /\ UNCHANGED <<tokenCache, faults>>
       ELSE /\ fail = FALSE
            /\ vf' = [vf EXCEPT ![p] = Kept(p, Returned(f, VerifyCatch(o, f.localUserId)))]
            /\ UNCHANGED <<tokenCache, faults>>
  /\ UNCHANGED <<now, http, reqs>>
  /\ UNCHANGED gwVars
  /\ UNCHANGED actVars

\* the reply of the token-cache setex; a rejected setex is thrown inside
\* the try block and lands in the same catch block
VerifySetexReply(p) ==
  /\ vf[p].pc = "v_setex"
  /\ vf' = [vf EXCEPT ![p] = Kept(p,
              IF vf[p].failed
              THEN Returned(vf[p], VerifyCatch([NoOutcome EXCEPT !.kind = "thrown"],
                                               vf[p].localUserId))
              ELSE Returned(vf[p], Ret(vf[p].outcome.dataId)))]
  /\ UNCHANGED <<now, faults, tokenCache, http, reqs>>
  /\ UNCHANGED gwVars
  /\ UNCHANGED actVars

\* verifyTokenFast after the reply of redis.get
AfterFastGet(f, clock) ==
  IF f.failed THEN Returned(f, Thrown)
  ELSE IF f.cached # NoEntry
  THEN Returned([f EXCEPT !.hit = TRUE], Ret(ParseInt(f.cached.val)))
  ELSE LET localUserId == ParseTokenLocally(f.token, clock) IN
       Returned([f EXCEPT !.localUserId = localUserId, !.at = clock], Ret(localUserId))

VerifyFastGetReply(p) ==
  /\ vf[p].pc = "f_get"
  /\ vf' = [vf EXCEPT ![p] = Kept(p, AfterFastGet(vf[p], now))]
  /\ UNCHANGED <<now, faults, tokenCache, http, reqs>>
  /\ UNCHANGED gwVars
  /\ UNCHANGED actVars

\* ------------------------------------------------------------ HttpAuthGuard

\* canActivate: an HTTP request arrives with `Authorization: Bearer <t>`
HttpRequest ==
  /\ http.pc \in {"idle", "allowed", "denied"}
  /\ reqs < MaxRequests
  /\ \E t \in Tokens, fail \in FaultChoices :
       /\ fail => TokenGiven(t)
       /\ vf' = [vf EXCEPT ![HttpProc] = CallVerify(t, fail)]
       /\ faults' = CountFault(fail)
  /\ http' = [pc |-> "verifying", userId |-> Null]
  /\ reqs' = reqs + 1
  /\ UNCHANGED <<now, tokenCache>>
  /\ UNCHANGED gwVars
  /\ UNCHANGED actVars

\* canActivate after verifyToken: request.userId is set, or 401 is thrown
HttpResume ==
  /\ http.pc = "verifying"
  /\ vf[HttpProc].pc = "ret"
  /\ http' = IF vf[HttpProc].ret.thrown \/ vf[HttpProc].ret.id = Null
             THEN [pc |-> "denied", userId |-> Null]
             ELSE [pc |-> "allowed", userId |-> vf[HttpProc].ret.id]
  /\ vf' = [vf EXCEPT ![HttpProc] = IdleFrame]
  /\ UNCHANGED <<now, faults, tokenCache, reqs>>
  /\ UNCHANGED gwVars
  /\ UNCHANGED actVars

\* ------------------------------------------------------------ RedisService

NoPresence == [val |-> "", expireAt |-> 0]

\* setUserOnline whose setex stores nothing
SetUserOnlineKeyNothing(pr, userId, socketId, clock) == pr

\* setUserOnline, first command: setex(`user:${userId}:online`, 300, socketId)
SetUserOnlineKey(pr, userId, socketId, clock) ==
  [pr EXCEPT ![userId] = Setex(PresenceTTL, socketId, clock)]

\* removeUserOnline, first command: del(`user:${userId}:online`)
RemoveUserOnlineKey(pr, userId) == [pr EXCEPT ![userId] = NoPresence]

\* a mutant of isUserOnline: every user is taken to be online
IsUserOnlineAlways(userId) == TRUE

\* isUserOnline: exists(`user:${userId}:online`) === 1
IsUserOnline(userId) == userId \in DOMAIN presence /\ Live(presence[userId], now)

\* ------------------------------------------------------------- the store

\* a user of the marketplace who never connects to this process
Stranger == 3

\* chat.chats when the process starts: chat X of users 1 and 2, chat Y of
\* user 2 and the stranger
Chats == {[id |-> "X", buyer_id |-> 1, seller_id |-> 2],
          [id |-> "Y", buyer_id |-> 2, seller_id |-> Stranger]}

\* a mutant of getUserChats: only the chats userId is the buyer of
GetUserChatsBuyerOnly(userId) == {ch \in chats : ch.buyer_id = userId}

\* MessagesService.getUserChats: the chats userId is buyer or seller of
GetUserChats(userId) == {ch \in chats : ch.buyer_id = userId \/ ch.seller_id = userId}

\* a mutant of RoomOf: the event goes to every socket, not to the chat's room
RoomOfEverySocket(chatId) == <<"all", "">>

\* the room of a chat: `chat:${chat.id}`
RoomOf(chatId) == <<"chat", chatId>>

\* how many messages are sent in a run
MaxMsgs == 2

\* the chat ids clients name: the two chats, and one that does not exist
ChatIds == {"X", "Y", "none"}

\* message texts: non-blank, and blank
Texts == {"hi", " "}

\* `data.text && data.text.trim().length > 0`
NonBlank(text) == text # "" /\ text # " "

NoChat == [id |-> "", buyer_id |-> Null, seller_id |-> Null]

\* MessagesService.getChatById: the row, or null
GetChatById(chatId) ==
  IF \E ch \in chats : ch.id = chatId
  THEN CHOOSE ch \in chats : ch.id = chatId
  ELSE NoChat

\* a mutant of the participation check: everyone passes
IsParticipantAnyone(chat, userId) == TRUE

\* a mutant of the participant check: only the seller is compared
IsParticipantNotSeller(chat, userId) == chat.seller_id # userId

\* `chat.buyer_id !== client.userId && chat.seller_id !== client.userId` fails
IsParticipant(chat, userId) == chat.buyer_id = userId \/ chat.seller_id = userId

\* the other party of the chat, as the handlers compute it
OtherParty(chat, userId) == IF chat.buyer_id = userId THEN chat.seller_id ELSE chat.buyer_id

\* the id the store gives the chat it inserts for (buyerId, sellerId)
NewChatId(buyerId, sellerId) == <<<<"N11", "N12">>, <<"N21", "N22">>>>[buyerId][sellerId]

\* MessagesService.getChatByUsers: a row of the two users in either order
GetChatByUsers(cs, buyerId, sellerId) ==
  {ch \in cs : \/ ch.buyer_id = buyerId /\ ch.seller_id = sellerId
               \/ ch.buyer_id = sellerId /\ ch.seller_id = buyerId}

\* MessagesService.createChat: INSERT ... ON CONFLICT (buyer_id, seller_id) DO
\* UPDATE: chat.chats after it; the conflict target is the ordered pair of
\* UNIQUE(buyer_id, seller_id)
CreateChat(cs, buyerId, sellerId) ==
  IF \E ch \in cs : ch.buyer_id = buyerId /\ ch.seller_id = sellerId
  THEN cs
  ELSE cs \cup {[id |-> NewChatId(buyerId, sellerId), buyer_id |-> buyerId,
                 seller_id |-> sellerId]}

\* the row createChat returns (RETURNING *)
CreatedChat(cs, buyerId, sellerId) ==
  CHOOSE ch \in CreateChat(cs, buyerId, sellerId) :
    ch.buyer_id = buyerId /\ ch.seller_id = sellerId

\* a mutant of markChatMessagesAsRead: no receipt is inserted
MarkChatMessagesAsReadNothing(msgs, reads, chatId, userId) == reads

\* MessagesService.markChatMessagesAsRead: a receipt of userId for every
\* message of the chat that userId did not send (ON CONFLICT DO NOTHING)
MarkChatMessagesAsRead(msgs, reads, chatId, userId) ==
  reads \cup {<<i, userId>> : i \in {k \in 1..Len(msgs) :
                                       msgs[k].chat_id = chatId /\ msgs[k].sender_id # userId}}

\* MessagesService.markMessageAsRead for each of messageIds
MarkMessageAsRead(reads, messageIds, userId) ==
  reads \cup {<<i, userId>> : i \in messageIds}

\* MessagesService.createMessage: the table after the INSERT
CreateMessage(msgs, chatId, senderId, text) ==
  Append(msgs, [chat_id |-> chatId, sender_id |-> senderId, text |-> text])

\* getMessages(chatId, limit = 50, offset = 0)
DefaultLimit == 50

\* a mutant of getMessages: the page is taken from the oldest message on
GetMessagesOldest(msgs, chatId, limit, offset) ==
  LET ids == {i \in 1..Len(msgs) : msgs[i].chat_id = chatId}
      asc == [k \in 1..Cardinality(ids) |->
                CHOOSE i \in ids : Cardinality({j \in ids : j < i}) = k - 1]
      last == IF offset + limit < Len(asc) THEN offset + limit ELSE Len(asc) IN
  SubSeq(asc, offset + 1, last)

\* MessagesService.getMessages: the ids of the rows of the chat taken
\* ORDER BY created_at DESC (a later row has a greater index), cut by
\* LIMIT / OFFSET, and then reversed
GetMessages(msgs, chatId, limit, offset) ==
  LET ids == {i \in 1..Len(msgs) : msgs[i].chat_id = chatId}
      desc == [k \in 1..Cardinality(ids) |->
                 CHOOSE i \in ids : Cardinality({j \in ids : j > i}) = k - 1]
      last == IF offset + limit < Len(desc) THEN offset + limit ELSE Len(desc)
      rows == SubSeq(desc, offset + 1, last) IN
  [k \in 1..Len(rows) |-> rows[Len(rows) + 1 - k]]

\* MessagesService.getUnreadCountForChat: the messages of the chat that
\* userId did not send and has no read receipt for
GetUnreadCountForChat(msgs, reads, chatId, userId) ==
  Cardinality({i \in 1..Len(msgs) :
                 /\ msgs[i].chat_id = chatId
                 /\ msgs[i].sender_id # userId
                 /\ <<i, userId>> \notin reads})

\* -------------------------------------------------------------- ChatGateway

\* the tokens clients present in the handshake and in auth:refresh-token:
\* none, one of user 1 that is already expired, one of user 1 that expires
\* after the first tick, one of user 2 that does not expire in the run
GwTokens == {NoToken, Tok(1, PresenceTTL \div 2), Tok(1, StartTime + PresenceTTL \div 2),
             Tok(2, FarFuture)}

NoSession == [userId |-> Null, token |-> NoToken]

\* whom an event is emitted to: one socket, every socket, a room
ToSocket(c) == <<"socket", c>>
ToAll == <<"all", "">>

Event(ev, to, code, userId, by) ==
  [ev |-> ev, to |-> to, code |-> code, userId |-> userId, chatId |-> "", n |-> Null,
   by |-> by]

\* an event about a chat: message:new{id: n}, unread:updated{unreadCount: n}
ChatEvent(ev, to, userId, chatId, n, by) ==
  [ev |-> ev, to |-> to, code |-> "", userId |-> userId, chatId |-> chatId, n |-> n,
   by |-> by]

\* userSockets after `if (!has(id)) set(id, new Set()); get(id).add(socketId)`
RegistryAdd(us, userId, socketId) ==
  IF userId \in DOMAIN us
  THEN [us EXCEPT ![userId] = @ \cup {socketId}]
  ELSE [u \in DOMAIN us \cup {userId} |-> IF u = userId THEN {socketId} ELSE us[u]]

\* a mutant of RegistryRemove: the emptied set stays in the map
RegistryRemoveKeepEmpty(us, userId, socketId) ==
  IF userId \in DOMAIN us THEN [us EXCEPT ![userId] = @ \ {socketId}] ELSE us

\* userSockets after handleDisconnect's `userSocketSet.delete(client.id)` and,
\* when the set is then empty, `userSockets.delete(userId)`
RegistryRemove(us, userId, socketId) ==
  IF userId \notin DOMAIN us THEN us
  ELSE IF us[userId] \ {socketId} = {}
  THEN [u \in DOMAIN us \ {userId} |-> us[u]]
  ELSE [us EXCEPT ![userId] = @ \ {socketId}]

IdleHd == [pc |-> "idle", userId |-> Null, failed |-> FALSE]

\* handleDisconnect(client) up to its first await.  No userId: ignored.
\* Else the socket id leaves the registry; if it was the user's last, the
\* entry is dropped and removeUserOnline issues its del.
DiscLast(c) ==
  /\ Truthy(session[c].userId)
  /\ session[c].userId \in DOMAIN userSockets
  /\ userSockets[session[c].userId] \ {c} = {}

DiscUserSockets(c) ==
  IF Truthy(session[c].userId)
  THEN RegistryRemove(userSockets, session[c].userId, c)
  ELSE userSockets

DiscAdded(c) ==
  IF Truthy(session[c].userId) THEN added \ {<<session[c].userId, c>>} ELSE added

DiscPresence(c, fail) ==
  IF DiscLast(c) /\ ~fail THEN RemoveUserOnlineKey(presence, session[c].userId)
  ELSE presence

DiscHd(c, fail) ==
  IF DiscLast(c)
  THEN [pc |-> "del", userId |-> session[c].userId, failed |-> fail]
  ELSE [IdleHd EXCEPT !.pc = "done"]

\* client.disconnect() by the server, or the transport closing: the socket
\* closes and handleDisconnect starts (nothing happens on a closed socket)
CloseSocket(c, fail) ==
  IF sock[c] = "open"
  THEN /\ sock' = [sock EXCEPT ![c] = "closed"]
       /\ userSockets' = DiscUserSockets(c)
       /\ added' = DiscAdded(c)
       /\ presence' = DiscPresence(c, fail)
       /\ hd' = [hd EXCEPT ![c] = DiscHd(c, fail)]
       /\ faults' = CountFault(fail /\ DiscLast(c))
       /\ (fail => DiscLast(c))
  ELSE /\ fail = FALSE
       /\ UNCHANGED <<sock, userSockets, added, presence, hd, faults>>

\* the transport of an open connection closes
Disconnect(c) ==
  /\ sock[c] = "open"
  /\ \E fail \in FaultChoices : CloseSocket(c, fail)
  /\ UNCHANGED <<now, tokenCache, vf, http, reqs, session, onlineUsers, rooms, emitted,
                 hc, hr>>
  /\ UNCHANGED sendVars
  /\ UNCHANGED actVars

\* removeUserOnline after the reply of del: srem is issued
DiscDelReply(c) ==
  /\ hd[c].pc = "del"
  /\ IF hd[c].failed
     THEN /\ hd' = [hd EXCEPT ![c] = [IdleHd EXCEPT !.pc = "done"]]
          /\ UNCHANGED <<onlineUsers, faults>>
     ELSE \E fail \in FaultChoices :
            /\ hd' = [hd EXCEPT ![c].pc = "srem", ![c].failed = fail]
            /\ onlineUsers' = IF fail THEN onlineUsers ELSE onlineUsers \ {hd[c].userId}
            /\ faults' = CountFault(fail)
  /\ UNCHANGED <<now, tokenCache, vf, http, reqs, sock, session, userSockets, presence,
                 rooms, emitted, hc, hr, added>>
  /\ UNCHANGED sendVars
  /\ UNCHANGED actVars

\* handleDisconnect after removeUserOnline: server.emit('user:offline')
DiscSremReply(c) ==
  /\ hd[c].pc = "srem"
  /\ hd' = [hd EXCEPT ![c] = [IdleHd EXCEPT !.pc = "done"]]
  /\ emitted' = IF hd[c].failed THEN emitted
                ELSE emitted \cup {Event("user:offline", ToAll, "", hd[c].userId, c)}
  /\ UNCHANGED <<now, faults, tokenCache, vf, http, reqs, sock, session, userSockets,
                 presence, onlineUsers, rooms, hc, hr, added>>
  /\ UNCHANGED sendVars
  /\ UNCHANGED actVars

\* `stage` notes where a rejected handleConnection was when it rejected
IdleHc == [pc |-> "idle", token |-> NoToken, userId |-> Null, failed |-> FALSE,
           stage |-> ""]

\* a mutant of Reject: auth:error is emitted but the socket is left open
RejectNoDisconnect(c, code) ==
  /\ emitted' = emitted \cup {Event("auth:error", ToSocket(c), code, Null, c)}
  /\ hc' = [hc EXCEPT ![c] = [IdleHc EXCEPT !.pc = "rejected", !.stage = hc[c].pc]]
  /\ UNCHANGED <<sock, userSockets, added, presence, hd, faults>>

\* handleConnection's rejection: emit auth:error, client.disconnect(), return
Reject(c, code) ==
  /\ emitted' = emitted \cup {Event("auth:error", ToSocket(c), code, Null, c)}
  /\ hc' = [hc EXCEPT ![c] = [IdleHc EXCEPT !.pc = "rejected", !.stage = hc[c].pc]]
  /\ \E fail \in FaultChoices : CloseSocket(c, fail)

\* a client connects with token t in its handshake: handleConnection up to
\* its first await
Connect(c) ==
  /\ sock[c] = "new"
  /\ \E t \in GwTokens :
       IF ~TokenGiven(t)
       THEN /\ emitted' = emitted \cup
                 {Event("auth:error", ToSocket(c), "TOKEN_REQUIRED", Null, c)}
            /\ hc' = [hc EXCEPT ![c] = [IdleHc EXCEPT !.pc = "rejected", !.stage = "start"]]
            /\ sock' = [sock EXCEPT ![c] = "closed"]
            /\ hd' = [hd EXCEPT ![c] = [IdleHd EXCEPT !.pc = "done"]]
            /\ UNCHANGED <<vf, faults>>
       ELSE /\ \E fail \in FaultChoices :
                 /\ vf' = [vf EXCEPT ![ConnProc(c)] = CallVerify(t, fail)]
                 /\ faults' = CountFault(fail)
            /\ hc' = [hc EXCEPT ![c] = [IdleHc EXCEPT !.pc = "verify", !.token = t]]
            /\ sock' = [sock EXCEPT ![c] = "open"]
            /\ UNCHANGED <<emitted, hd>>
  /\ UNCHANGED <<now, tokenCache, http, reqs, session, userSockets, presence, onlineUsers,
                 rooms, hr, added>>
  /\ UNCHANGED sendVars
  /\ UNCHANGED actVars

\* handleConnection after verifyToken: null or an exception rejects; else
\* the session gets userId and token, the socket id enters the registry and
\* setUserOnline issues its setex
ConnResume(c) ==
  /\ hc[c].pc = "verify"
  /\ vf[ConnProc(c)].pc = "ret"
  /\ vf' = [vf EXCEPT ![ConnProc(c)] = IdleFrame]
  /\ LET r == vf[ConnProc(c)].ret IN
     IF r.thrown
     THEN /\ Reject(c, "AUTH_SERVICE_ERROR")
          /\ UNCHANGED <<session>>
     ELSE IF r.id = Null
     THEN /\ Reject(c, "TOKEN_INVALID")
          /\ UNCHANGED <<session>>
     ELSE \E fail \in FaultChoices :
            /\ session' = [session EXCEPT ![c] = [userId |-> r.id, token |-> hc[c].token]]
            /\ userSockets' = RegistryAdd(userSockets, r.id, c)
            /\ added' = added \cup {<<r.id, c>>}
            /\ presence' = IF fail THEN presence
                           ELSE SetUserOnlineKey(presence, r.id, c, now)
            /\ faults' = CountFault(fail)
            /\ hc' = [hc EXCEPT ![c] = [IdleHc EXCEPT !.pc = "setex", !.userId = r.id,
                                                      !.failed = fail]]
            /\ UNCHANGED <<sock, hd, emitted>>
  /\ UNCHANGED <<now, tokenCache, http, reqs, onlineUsers, rooms, hr>>
  /\ UNCHANGED sendVars
  /\ UNCHANGED actVars

\* setUserOnline after the reply of setex: sadd('online:users') is issued;
\* a rejected setex lands in handleConnection's catch block
ConnSetexReply(c) ==
  /\ hc[c].pc = "setex"
  /\ IF hc[c].failed
     THEN /\ Reject(c, "AUTH_SERVICE_ERROR")
          /\ UNCHANGED <<onlineUsers>>
     ELSE \E fail \in FaultChoices :
            /\ onlineUsers' = IF fail THEN onlineUsers ELSE onlineUsers \cup {hc[c].userId}
            /\ faults' = CountFault(fail)
            /\ hc' = [hc EXCEPT ![c].pc = "sadd", ![c].failed = fail]
            /\ UNCHANGED <<sock, userSockets, added, presence, hd, emitted>>
  /\ UNCHANGED <<now, tokenCache, vf, http, reqs, session, rooms, hr>>
  /\ UNCHANGED sendVars
  /\ UNCHANGED actVars

\* handleConnection after setUserOnline: server.emit('user:online'), then
\* getUserChats is issued
ConnSaddReply(c) ==
  /\ hc[c].pc = "sadd"
  /\ IF hc[c].failed
     THEN Reject(c, "AUTH_SERVICE_ERROR")
     ELSE \E fail \in FaultChoices :
            /\ emitted' = emitted \cup
                 {Event("user:online", ToAll, "", hc[c].userId, c)}
            /\ faults' = CountFault(fail)
            /\ hc' = [hc EXCEPT ![c].pc = "chats", ![c].failed = fail]
            /\ UNCHANGED <<sock, userSockets, added, presence, hd>>
  /\ UNCHANGED <<now, tokenCache, vf, http, reqs, session, onlineUsers, rooms, hr>>
  /\ UNCHANGED sendVars
  /\ UNCHANGED actVars

\* handleConnection after getUserChats: the socket joins the room of every
\* chat of the user
ConnChatsReply(c) ==
  /\ hc[c].pc = "chats"
  /\ IF hc[c].failed
     THEN /\ Reject(c, "AUTH_SERVICE_ERROR")
          /\ UNCHANGED <<rooms>>
     ELSE /\ rooms' = [rooms EXCEPT ![c] =
                         @ \cup {RoomOf(ch.id) : ch \in GetUserChats(hc[c].userId)}]
          /\ hc' = [hc EXCEPT ![c] = [IdleHc EXCEPT !.pc = "done"]]
          /\ UNCHANGED <<sock, userSockets, added, presence, hd, emitted, faults>>
  /\ UNCHANGED <<now, tokenCache, vf, http, reqs, session, onlineUsers, hr>>
  /\ UNCHANGED sendVars
  /\ UNCHANGED actVars

IdleHr == [pc |-> "idle", token |-> NoToken, userId |-> Null, failed |-> FALSE,
           result |-> ""]

\* auth:refresh-token{token} arrives on an open connection: handleRefreshToken
\* up to its first await
RefreshToken(c) ==
  /\ sock[c] = "open"
  /\ hr[c].pc = "idle"
  /\ \E t \in GwTokens :
       IF ~TokenGiven(t)
       THEN /\ hr' = [hr EXCEPT ![c] = [IdleHr EXCEPT !.result = "Token required"]]
            /\ UNCHANGED <<vf, faults>>
       ELSE \E fail \in FaultChoices :
              /\ vf' = [vf EXCEPT ![RefreshProc(c)] = CallVerify(t, fail)]
              /\ faults' = CountFault(fail)
              /\ hr' = [hr EXCEPT ![c] = [IdleHr EXCEPT !.pc = "verify", !.token = t]]
  /\ UNCHANGED <<now, tokenCache, http, reqs, sock, session, userSockets, presence,
                 onlineUsers, rooms, emitted, hc, hd, added>>
  /\ UNCHANGED sendVars
  /\ UNCHANGED actVars

\* handleRefreshToken after verifyToken: on success the session's userId and
\* token are overwritten and setUserOnline issues its setex
RefreshResume(c) ==
  /\ hr[c].pc = "verify"
  /\ vf[RefreshProc(c)].pc = "ret"
  /\ vf' = [vf EXCEPT ![RefreshProc(c)] = IdleFrame]
  /\ LET r == vf[RefreshProc(c)].ret IN
     IF r.thrown
     THEN /\ hr' = [hr EXCEPT ![c] = [IdleHr EXCEPT !.result = "Failed to refresh token"]]
          /\ UNCHANGED <<session, presence, faults>>
     ELSE IF r.id = Null
     THEN /\ hr' = [hr EXCEPT ![c] = [IdleHr EXCEPT !.result = "Invalid token"]]
          /\ UNCHANGED <<session, presence, faults>>
     ELSE \E fail \in FaultChoices :
            /\ session' = [session EXCEPT ![c] = [userId |-> r.id, token |-> hr[c].token]]
            /\ presence' = IF fail THEN presence
                           ELSE SetUserOnlineKey(presence, r.id, c, now)
            /\ faults' = CountFault(fail)
            /\ hr' = [hr EXCEPT ![c] = [IdleHr EXCEPT !.pc = "setex", !.userId = r.id,
                                                      !.failed = fail]]
  /\ UNCHANGED <<now, tokenCache, http, reqs, sock, userSockets, onlineUsers, rooms,
                 emitted, hc, hd, added>>
  /\ UNCHANGED sendVars
  /\ UNCHANGED actVars

\* setUserOnline (refresh) after the reply of setex: sadd is issued
RefreshSetexReply(c) ==
  /\ hr[c].pc = "setex"
  /\ IF hr[c].failed
     THEN /\ hr' = [hr EXCEPT ![c] = [IdleHr EXCEPT !.result = "Failed to refresh token"]]
          /\ UNCHANGED <<onlineUsers, faults>>
     ELSE \E fail \in FaultChoices :
            /\ onlineUsers' = IF fail THEN onlineUsers ELSE onlineUsers \cup {hr[c].userId}
            /\ faults' = CountFault(fail)
            /\ hr' = [hr EXCEPT ![c].pc = "sadd", ![c].failed = fail]
  /\ UNCHANGED <<now, tokenCache, vf, http, reqs, sock, session, userSockets, presence,
                 rooms, emitted, hc, hd, added>>
  /\ UNCHANGED sendVars
  /\ UNCHANGED actVars

\* handleRefreshToken after setUserOnline: { success: true, userId }
RefreshSaddReply(c) ==
  /\ hr[c].pc = "sadd"
  /\ hr' = [hr EXCEPT ![c] = [IdleHr EXCEPT !.result =
                IF hr[c].failed THEN "Failed to refresh token" ELSE "success"]]
  /\ UNCHANGED <<now, faults, tokenCache, vf, http, reqs, sock, session, userSockets,
                 presence, onlineUsers, rooms, emitted, hc, hd, added>>
  /\ UNCHANGED sendVars
  /\ UNCHANGED actVars

\* `gateId` is the user id verifyTokenFast returned to this handleMessage
IdleHm == [pc |-> "idle", chatId |-> "", text |-> "", recipientId |-> Null,
           gateId |-> Null, msgId |-> Null, unread |-> Null, online |-> FALSE, failed |-> FALSE,
           expired |-> FALSE,
           result |-> ""]

\* the token's own exp claim has passed at time `clock`
Expired(t, clock) == t.kind = "jwt" /\ t.exp # Null /\ t.exp < clock

\* message:send{chatId, text} arrives on an open connection: handleMessage up
\* to its first await.  `expired` notes whether the session's token had
\* passed its exp claim when the event arrived.
SendMessage(c) ==
  /\ sock[c] = "open"
  /\ hm[c].pc = "idle"
  /\ Len(messages) < MaxMsgs
  /\ acts < MaxActs
  /\ acts' = acts + 1
  /\ \E chatId \in ChatIds, text \in Texts :
       IF ~Truthy(session[c].userId) \/ ~TokenGiven(session[c].token)
       THEN /\ emitted' = emitted \cup
                 {Event("auth:error", ToSocket(c), "TOKEN_REQUIRED", Null, c)}
            /\ hm' = [hm EXCEPT ![c] = [IdleHm EXCEPT !.result = "Unauthorized"]]
            /\ UNCHANGED <<vf, faults>>
       ELSE \E fail \in FaultChoices :
              /\ vf' = [vf EXCEPT ![SendProc(c)] = CallVerifyFast(session[c].token, fail)]
              /\ faults' = CountFault(fail)
              /\ hm' = [hm EXCEPT ![c] =
                          [IdleHm EXCEPT !.pc = "verify", !.chatId = chatId, !.text = text,
                                         !.expired = Expired(session[c].token, now)]]
              /\ UNCHANGED emitted
  /\ UNCHANGED <<now, tokenCache, http, reqs, sock, session, userSockets, presence,
                 onlineUsers, rooms, hc, hd, hr, messages, readMessages, notifications,
                 added>>
  /\ UNCHANGED <<ha, chats, typing>>

\* a mutant of the auth gate: every result of verifyTokenFast passes
GatePassesAlways(userId, sessionUserId) == TRUE

\* the auth gate of every handler: `!userId || userId !== client.userId` fails
GatePasses(userId, sessionUserId) == Truthy(userId) /\ userId = sessionUserId

\* handleMessage after verifyTokenFast (called outside the try block: its
\* exception leaves the handler).  A result that is absent or not the
\* session's user id emits auth:token-expired; else getChatById is issued.
SendResume(c) ==
  /\ hm[c].pc = "verify"
  /\ vf[SendProc(c)].pc = "ret"
  /\ vf' = [vf EXCEPT ![SendProc(c)] = IdleFrame]
  /\ LET r == vf[SendProc(c)].ret IN
     IF r.thrown
     THEN /\ hm' = [hm EXCEPT ![c] = [IdleHm EXCEPT !.result = "exception",
                                                    !.expired = hm[c].expired]]
          /\ UNCHANGED <<emitted, faults>>
     ELSE IF ~GatePasses(r.id, session[c].userId)
     THEN /\ emitted' = emitted \cup
               {Event("auth:token-expired", ToSocket(c), "TOKEN_EXPIRED", Null, c)}
          /\ hm' = [hm EXCEPT ![c] = [IdleHm EXCEPT !.result = "TOKEN_EXPIRED",
                                                    !.expired = hm[c].expired]]
          /\ UNCHANGED faults
     ELSE \E fail \in FaultChoices :
            /\ hm' = [hm EXCEPT ![c].pc = "chat", ![c].failed = fail, ![c].gateId = r.id]
            /\ faults' = CountFault(fail)
            /\ UNCHANGED emitted
  /\ UNCHANGED <<now, tokenCache, http, reqs, sock, session, userSockets, presence,
                 onlineUsers, rooms, hc, hd, hr, messages, readMessages, notifications,
                 added>>
  /\ UNCHANGED actVars

\* what handleMessage returns from its try block or its catch block
SendDone(c, result) ==
  hm' = [hm EXCEPT ![c] = [IdleHm EXCEPT !.result = result, !.expired = hm[c].expired,
                                         !.msgId = hm[c].msgId]]

\* handleMessage after getChatById: the chat must exist and the session's
\* user must be its buyer or seller; then createMessage inserts the row
SendChatReply(c) ==
  /\ hm[c].pc = "chat"
  /\ LET chat == GetChatById(hm[c].chatId)
         userId == session[c].userId IN
     IF hm[c].failed
     THEN /\ SendDone(c, "Failed to send message")
          /\ UNCHANGED <<messages, faults>>
     ELSE IF chat = NoChat
     THEN /\ SendDone(c, "Chat not found")
          /\ UNCHANGED <<messages, faults>>
     ELSE IF ~IsParticipant(chat, userId)
     THEN /\ SendDone(c, "Access denied")
          /\ UNCHANGED <<messages, faults>>
     ELSE \E fail \in FaultChoices :
            /\ messages' = IF fail THEN messages
                           ELSE CreateMessage(messages, hm[c].chatId, userId, hm[c].text)
            /\ faults' = CountFault(fail)
            /\ hm' = [hm EXCEPT ![c].pc = "create", ![c].failed = fail,
                                ![c].recipientId = OtherParty(chat, userId),
                                ![c].msgId = IF fail THEN Null ELSE Len(messages) + 1]
  /\ UNCHANGED <<now, tokenCache, vf, http, reqs, sock, session, userSockets, presence,
                 onlineUsers, rooms, emitted, hc, hd, hr, readMessages, notifications,
                 added>>
  /\ UNCHANGED actVars

\* handleMessage after createMessage: getUnreadCountForChat(chatId, recipientId)
SendCreateReply(c) ==
  /\ hm[c].pc = "create"
  /\ IF hm[c].failed
     THEN /\ SendDone(c, "Failed to send message")
          /\ UNCHANGED faults
     ELSE \E fail \in FaultChoices :
            /\ hm' = [hm EXCEPT ![c].pc = "unread", ![c].failed = fail,
                                ![c].unread = IF fail THEN Null
                                  ELSE GetUnreadCountForChat(messages, readMessages,
                                                             hm[c].chatId, hm[c].recipientId)]
            /\ faults' = CountFault(fail)
  /\ UNCHANGED <<now, tokenCache, vf, http, reqs, sock, session, userSockets, presence,
                 onlineUsers, rooms, emitted, hc, hd, hr, messages, readMessages,
                 notifications, added>>
  /\ UNCHANGED actVars

\* handleMessage after getUnreadCountForChat: message:new goes to the chat's
\* room, unread:updated to each socket registered under the recipient, and
\* isUserOnline(recipientId) is issued
SendUnreadReply(c) ==
  /\ hm[c].pc = "unread"
  /\ IF hm[c].failed
     THEN /\ SendDone(c, "Failed to send message")
          /\ UNCHANGED <<emitted, faults>>
     ELSE \E fail \in FaultChoices :
            /\ emitted' = emitted
                 \cup {ChatEvent("message:new", RoomOf(hm[c].chatId),
                                 messages[hm[c].msgId].sender_id, hm[c].chatId,
                                 hm[c].msgId, c)}
                 \cup (IF hm[c].recipientId \in DOMAIN userSockets
                       THEN {ChatEvent("unread:updated", ToSocket(s), Null, hm[c].chatId,
                                       hm[c].unread, c) :
                               s \in userSockets[hm[c].recipientId]}
                       ELSE {})
            /\ hm' = [hm EXCEPT ![c].pc = "online",
                                ![c].failed = fail,
                                ![c].online = ~fail /\ IsUserOnline(hm[c].recipientId)]
            /\ faults' = CountFault(fail)
  /\ UNCHANGED <<now, tokenCache, vf, http, reqs, sock, session, userSockets, presence,
                 onlineUsers, rooms, hc, hd, hr, messages, readMessages, notifications,
                 added>>
  /\ UNCHANGED actVars

\* a mutant of the offline-email condition: the recipient's presence is not
\* looked at
ShouldNotifyAnyway(online, text) == NonBlank(text)

\* `!isRecipientOnline && data.text && data.text.trim().length > 0`
ShouldNotify(online, text) == ~online /\ NonBlank(text)

\* handleMessage after isUserOnline: an offline recipient of a non-blank text
\* gets one sendOfflineChatEmail, not awaited; { success: true, message }
SendOnlineReply(c) ==
  /\ hm[c].pc = "online"
  /\ IF hm[c].failed
     THEN /\ SendDone(c, "Failed to send message")
          /\ UNCHANGED notifications
     ELSE /\ notifications' =
               IF ShouldNotify(hm[c].online, hm[c].text)
               THEN Append(notifications,
                           [recipientId |-> hm[c].recipientId,
                            senderId |-> session[c].userId,
                            chatId |-> hm[c].chatId, msgId |-> hm[c].msgId,
                            by |-> c, state |-> "pending"])
               ELSE notifications
          /\ SendDone(c, "success")
  /\ UNCHANGED <<now, faults, tokenCache, vf, http, reqs, sock, session, userSockets,
                 presence, onlineUsers, rooms, emitted, hc, hd, hr, messages, readMessages,
                 added>>
  /\ UNCHANGED actVars

\* a mutant of the .catch callback of the dispatch: the failure becomes the
\* handler's result
NotifyCatchSurfaced(h) == [h EXCEPT !.result = "Failed to send message"]

\* the .catch callback handleMessage hangs on sendOfflineChatEmail: it logs
NotifyCatch(h) == h

\* NotificationsService.sendOfflineChatEmail after axios.post: one POST, whose
\* failure is logged and rethrown to the .catch callback of handleMessage
NotifyReply ==
  /\ \E i \in 1..Len(notifications), ok \in BOOLEAN :
       /\ notifications[i].state = "pending"
       /\ notifications' = [notifications EXCEPT
                              ![i].state = IF ok THEN "sent" ELSE "failed"]
       /\ hm' = IF ok THEN hm
                ELSE [hm EXCEPT ![notifications[i].by] = NotifyCatch(@)]
  /\ UNCHANGED <<now, faults, tokenCache, vf, http, reqs, sock, session, userSockets,
                 presence, onlineUsers, rooms, emitted, hc, hd, hr, messages, readMessages,
                 added>>
  /\ UNCHANGED actVars

\* ------------------------------------------- the other event handlers

\* the frame of a typing:start, typing:stop, chat:join, chat:create,
\* users:online or message:mark-read handler; `changed` notes whether the
\* handler's INSERT of read receipts added a row
IdleHa == [pc |-> "idle", kind |-> "", chatId |-> "", buyerId |-> Null, sellerId |-> Null,
           messageIds |-> {}, failed |-> FALSE, unread |-> Null, changed |-> FALSE,
           history |-> <<>>, userIds |-> <<>>, next |-> 0, onlineUserIds |-> <<>>,
           online |-> FALSE,
           result |-> ""]

\* what none of these handlers writes
actFixed == <<now, tokenCache, http, reqs, sock, session, userSockets, presence, hc, hd, hr,
              added, hm, messages, notifications, acts>>

\* the handler returns: the frame that is left
ActDone(c, result) ==
  ha' = [ha EXCEPT ![c] = [IdleHa EXCEPT !.kind = ha[c].kind, !.chatId = ha[c].chatId,
                                         !.messageIds = ha[c].messageIds,
                                         !.unread = ha[c].unread,
                                         !.changed = ha[c].changed, !.result = result]]

\* an event arrives on an open connection: the handler up to its first
\* await.  Without client.userId or client.token it returns (typing:start
\* and typing:stop silently, the others after auth:error{TOKEN_REQUIRED});
\* else it calls verifyTokenFast(client.token).
ActStart(c, frame) ==
  /\ sock[c] = "open"
  /\ ha[c].pc = "idle"
  /\ acts < MaxActs
  /\ acts' = acts + 1
  /\ IF ~Truthy(session[c].userId) \/ ~TokenGiven(session[c].token)
     THEN /\ emitted' = IF frame.kind \in {"typing:start", "typing:stop"} THEN emitted
                        ELSE emitted \cup
                               {Event("auth:error", ToSocket(c), "TOKEN_REQUIRED", Null, c)}
          /\ ha' = [ha EXCEPT ![c] = [IdleHa EXCEPT !.kind = frame.kind,
                                                    !.result = "Unauthorized"]]
          /\ UNCHANGED <<vf, faults>>
     ELSE \E fail \in FaultChoices :
            /\ vf' = [vf EXCEPT ![ActProc(c)] = CallVerifyFast(session[c].token, fail)]
            /\ faults' = CountFault(fail)
            /\ ha' = [ha EXCEPT ![c] = [frame EXCEPT !.pc = "verify"]]
            /\ UNCHANGED emitted
  /\ UNCHANGED <<chats, typing, rooms, onlineUsers, readMessages>>
  /\ UNCHANGED <<now, tokenCache, http, reqs, sock, session, userSockets, presence, hc, hd,
                 hr, added, hm, messages, notifications>>

\* verifyTokenFast has returned to the handler of kind `kind`
ActVerified(c, kinds) ==
  /\ ha[c].pc = "verify"
  /\ ha[c].kind \in kinds
  /\ vf[ActProc(c)].pc = "ret"
  /\ vf' = [vf EXCEPT ![ActProc(c)] = IdleFrame]

\* the handler's auth gate turns the event away: verifyTokenFast threw (it
\* is called outside the try block), or `!userId || userId !== client.userId`
\* holds and auth:token-expired goes to the caller
ActGateFails(c) ==
  LET r == vf[ActProc(c)].ret IN r.thrown \/ ~GatePasses(r.id, session[c].userId)

ActTurnedAway(c) ==
  /\ IF vf[ActProc(c)].ret.thrown
     THEN /\ ActDone(c, "exception")
          /\ UNCHANGED emitted
     ELSE /\ emitted' = emitted \cup
               {Event("auth:token-expired", ToSocket(c), "TOKEN_EXPIRED", Null, c)}
          /\ ActDone(c, "TOKEN_EXPIRED")
  /\ UNCHANGED <<faults, chats, typing, rooms, onlineUsers, readMessages>>

\* typing:start or typing:stop {chatId} arrives
HandleTyping(c) ==
  \E kind \in {"typing:start", "typing:stop"}, chatId \in ChatIds :
    ActStart(c, [IdleHa EXCEPT !.kind = kind, !.chatId = chatId])

\* RedisService.setUserTyping / removeUserTyping: the typing keys after it
SetUserTyping(keys, chatId, userId) == keys \cup {<<chatId, userId>>}
RemoveUserTyping(keys, chatId, userId) == keys \ {<<chatId, userId>>}

\* handleTypingStart / handleTypingStop after verifyTokenFast: the gate, then
\* setUserTyping / removeUserTyping is issued
TypingResume(c) ==
  /\ ActVerified(c, {"typing:start", "typing:stop"})
  /\ IF ActGateFails(c)
     THEN ActTurnedAway(c)
     ELSE \E fail \in FaultChoices :
            /\ typing' = IF fail THEN typing
                         ELSE IF ha[c].kind = "typing:start"
                         THEN SetUserTyping(typing, ha[c].chatId, session[c].userId)
                         ELSE RemoveUserTyping(typing, ha[c].chatId, session[c].userId)
            /\ faults' = CountFault(fail)
            /\ ha' = [ha EXCEPT ![c].pc = "typing", ![c].failed = fail]
            /\ UNCHANGED <<emitted, chats, rooms, onlineUsers, readMessages>>
  /\ UNCHANGED actFixed

\* a mutant of RoomExcept: the caller is not left out (server.to)
RoomExceptNobody(chatId, c) == <<"chat", chatId>>

\* client.to(`chat:${chatId}`): the chat's room but for the socket c
RoomExcept(chatId, c) == <<"chat", chatId, c>>

\* the open sockets an event emitted to a room is delivered to: the members
\* of the room, but for the socket left out
Receivers(e) ==
  {s \in Conns : sock[s] = "open" /\ <<"chat", e.to[2]>> \in rooms[s]}
    \ (IF Len(e.to) = 3 THEN {e.to[3]} ELSE {})

\* handleTypingStart / handleTypingStop after the Redis command: the event
\* goes to the chat's room (client.to: all of the room but the caller); a
\* rejected command is logged
TypingReply(c) ==
  /\ ha[c].pc = "typing"
  /\ emitted' = IF ha[c].failed THEN emitted
                ELSE emitted \cup {ChatEvent(ha[c].kind, RoomExcept(ha[c].chatId, c),
                                             session[c].userId, ha[c].chatId, Null, c)}
  /\ ActDone(c, IF ha[c].failed THEN "logged" ELSE "done")
  /\ UNCHANGED <<vf, faults, chats, typing, rooms, onlineUsers, readMessages>>
  /\ UNCHANGED actFixed

\* chat:join {chatId} arrives
HandleJoinChat(c) ==
  \E chatId \in ChatIds : ActStart(c, [IdleHa EXCEPT !.kind = "chat:join", !.chatId = chatId])

\* handleJoinChat after verifyTokenFast: the gate, then getChatById is issued
JoinResume(c) ==
  /\ ActVerified(c, {"chat:join"})
  /\ IF ActGateFails(c)
     THEN ActTurnedAway(c)
     ELSE \E fail \in FaultChoices :
            /\ faults' = CountFault(fail)
            /\ ha' = [ha EXCEPT ![c].pc = "chat", ![c].failed = fail]
            /\ UNCHANGED <<emitted, chats, typing, rooms, onlineUsers, readMessages>>
  /\ UNCHANGED actFixed

\* handleJoinChat after getChatById: a participant of an existing chat joins
\* its room, and getMessages(chatId) is issued (`history` is what it reads)
JoinChatReply(c) ==
  /\ ha[c].pc = "chat"
  /\ ha[c].kind = "chat:join"
  /\ LET chat == GetChatById(ha[c].chatId) IN
     IF ha[c].failed
     THEN /\ ActDone(c, "Failed to join chat")
          /\ UNCHANGED <<rooms, faults>>
     ELSE IF chat = NoChat
     THEN /\ ActDone(c, "Chat not found")
          /\ UNCHANGED <<rooms, faults>>
     ELSE IF ~IsParticipant(chat, session[c].userId)
     THEN /\ ActDone(c, "Access denied")
          /\ UNCHANGED <<rooms, faults>>
     ELSE \E fail \in FaultChoices :
            /\ rooms' = [rooms EXCEPT ![c] = @ \cup {RoomOf(ha[c].chatId)}]
            /\ faults' = CountFault(fail)
            /\ ha' = [ha EXCEPT ![c].pc = "msgs", ![c].failed = fail,
                                ![c].history =
                                  IF fail THEN <<>>
                                  ELSE GetMessages(messages, ha[c].chatId, DefaultLimit, 0)]
  /\ UNCHANGED <<vf, emitted, chats, typing, onlineUsers, readMessages>>
  /\ UNCHANGED actFixed

\* handleJoinChat after getMessages: { success: true, messages }
JoinMsgsReply(c) ==
  /\ ha[c].pc = "msgs"
  /\ ActDone(c, IF ha[c].failed THEN "Failed to join chat" ELSE "success")
  /\ UNCHANGED <<vf, faults, emitted, chats, typing, rooms, onlineUsers, readMessages>>
  /\ UNCHANGED actFixed

\* chat:create {buyerId, sellerId} arrives
HandleCreateChat(c) ==
  \E buyerId \in Users, sellerId \in Users :
    ActStart(c, [IdleHa EXCEPT !.kind = "chat:create", !.buyerId = buyerId,
                               !.sellerId = sellerId])

\* handleCreateChat after verifyTokenFast: the gate, the caller must be the
\* buyer or the seller, then createChat is issued
CreateChatResume(c) ==
  /\ ActVerified(c, {"chat:create"})
  /\ IF ActGateFails(c)
     THEN ActTurnedAway(c)
     ELSE IF ~IsParticipant([buyer_id |-> ha[c].buyerId, seller_id |-> ha[c].sellerId],
                            session[c].userId)
     THEN /\ ActDone(c, "Access denied")
          /\ UNCHANGED <<faults, emitted, chats, typing, rooms, onlineUsers, readMessages>>
     ELSE \E fail \in FaultChoices :
            /\ chats' = IF fail THEN chats
                        ELSE CreateChat(chats, ha[c].buyerId, ha[c].sellerId)
            /\ faults' = CountFault(fail)
            /\ ha' = [ha EXCEPT ![c].pc = "create", ![c].failed = fail]
            /\ UNCHANGED <<emitted, typing, rooms, onlineUsers, readMessages>>
  /\ UNCHANGED actFixed

\* a mutant of PartySockets: the seller's sockets are left out
PartySocketsBuyerOnly(buyerId, sellerId) ==
  {s \in Conns : /\ sock[s] = "open"
                 /\ buyerId \in DOMAIN userSockets
                 /\ s \in userSockets[buyerId]}

\* the open sockets registered under the two parties
PartySockets(buyerId, sellerId) ==
  {s \in Conns : /\ sock[s] = "open"
                 /\ \E u \in {buyerId, sellerId} \cap DOMAIN userSockets :
                      s \in userSockets[u]}

\* handleCreateChat after createChat: the sockets of both parties join the
\* chat's room and chat:created goes to the room
CreateChatReply(c) ==
  /\ ha[c].pc = "create"
  /\ IF ha[c].failed
     THEN /\ ActDone(c, "Failed to create chat")
          /\ UNCHANGED <<rooms, emitted>>
     ELSE LET chat == CreatedChat(chats, ha[c].buyerId, ha[c].sellerId) IN
          /\ rooms' = [s \in Conns |->
                         IF s \in PartySockets(ha[c].buyerId, ha[c].sellerId)
                         THEN rooms[s] \cup {RoomOf(chat.id)} ELSE rooms[s]]
          /\ emitted' = emitted \cup
               {ChatEvent("chat:created", RoomOf(chat.id), Null, chat.id, Null, c)}
          /\ ha' = [ha EXCEPT ![c] = [IdleHa EXCEPT !.kind = "chat:create",
                                                    !.chatId = chat.id,
                                                    !.result = "success"]]
  /\ UNCHANGED <<vf, faults, chats, typing, onlineUsers, readMessages>>
  /\ UNCHANGED actFixed

\* users:online arrives
HandleGetOnlineUsers(c) == ActStart(c, [IdleHa EXCEPT !.kind = "users:online"])

\* handleGetOnlineUsers after verifyTokenFast: the gate, then getOnlineUsers
\* issues smembers('online:users'); `userIds` is what it reads, in the order
\* of the ids
OnlineUsersResume(c) ==
  /\ ActVerified(c, {"users:online"})
  /\ IF ActGateFails(c)
     THEN ActTurnedAway(c)
     ELSE \E fail \in FaultChoices :
            /\ faults' = CountFault(fail)
            /\ ha' = [ha EXCEPT
                 ![c].pc = "smembers", ![c].failed = fail,
                 ![c].userIds =
                   IF fail THEN <<>>
                   ELSE [k \in 1..Cardinality(onlineUsers) |->
                           CHOOSE u \in onlineUsers :
                             Cardinality({v \in onlineUsers : v < u}) = k - 1]]
            /\ UNCHANGED <<emitted, chats, typing, rooms, onlineUsers, readMessages>>
  /\ UNCHANGED actFixed

\* getOnlineUsers at the head of `for (const userId of userIds)`, `k` being
\* the place of the next id: with no id left the handler returns
\* { success: true, users }; else isUserOnline of the next id issues
\* exists(`user:${userId}:online`)
GetOnlineUsersLoop(c, k, acc) ==
  IF k > Len(ha[c].userIds)
  THEN /\ ActDone(c, "success")
       /\ UNCHANGED faults
  ELSE \E fail \in FaultChoices :
         /\ faults' = CountFault(fail)
         /\ ha' = [ha EXCEPT ![c].pc = "exists", ![c].failed = fail,
                             ![c].next = k, ![c].onlineUserIds = acc,
                             ![c].online = ~fail /\ IsUserOnline(ha[c].userIds[k])]

\* getOnlineUsers after smembers: the loop starts
OnlineUsersReply(c) ==
  /\ ha[c].pc = "smembers"
  /\ IF ha[c].failed
     THEN /\ ActDone(c, "Failed to get online users")
          /\ UNCHANGED faults
     ELSE GetOnlineUsersLoop(c, 1, <<>>)
  /\ UNCHANGED <<vf, emitted, chats, typing, rooms, onlineUsers, readMessages>>
  /\ UNCHANGED actFixed

\* getOnlineUsers after exists: an id whose presence key exists is pushed and
\* the loop goes on; for the others srem('online:users', userId) is issued
OnlineExistsReply(c) ==
  /\ ha[c].pc = "exists"
  /\ IF ha[c].failed
     THEN /\ ActDone(c, "Failed to get online users")
          /\ UNCHANGED <<faults, onlineUsers>>
     ELSE IF ha[c].online
     THEN /\ GetOnlineUsersLoop(c, ha[c].next + 1,
                                Append(ha[c].onlineUserIds, ha[c].userIds[ha[c].next]))
          /\ UNCHANGED onlineUsers
     ELSE \E fail \in FaultChoices :
            /\ onlineUsers' = IF fail THEN onlineUsers
                              ELSE onlineUsers \ {ha[c].userIds[ha[c].next]}
            /\ faults' = CountFault(fail)
            /\ ha' = [ha EXCEPT ![c].pc = "srem", ![c].failed = fail]
  /\ UNCHANGED <<vf, emitted, chats, typing, rooms, readMessages>>
  /\ UNCHANGED actFixed

\* getOnlineUsers after srem: the loop goes on
OnlineSremReply(c) ==
  /\ ha[c].pc = "srem"
  /\ IF ha[c].failed
     THEN /\ ActDone(c, "Failed to get online users")
          /\ UNCHANGED faults
     ELSE GetOnlineUsersLoop(c, ha[c].next + 1, ha[c].onlineUserIds)
  /\ UNCHANGED <<vf, emitted, chats, typing, rooms, onlineUsers, readMessages>>
  /\ UNCHANGED actFixed

\* the messageIds of a message:mark-read: none, or one stored message
MessageIdChoices == {{}} \cup {{i} : i \in 1..Len(messages)}

\* message:mark-read {chatId, messageIds?} arrives
HandleMarkMessagesAsRead(c) ==
  \E chatId \in ChatIds, messageIds \in MessageIdChoices :
    ActStart(c, [IdleHa EXCEPT !.kind = "message:mark-read", !.chatId = chatId,
                               !.messageIds = messageIds])

\* handleMarkMessagesAsRead after verifyTokenFast: the gate, then getChatById
\* is issued
MarkResume(c) ==
  /\ ActVerified(c, {"message:mark-read"})
  /\ IF ActGateFails(c)
     THEN ActTurnedAway(c)
     ELSE \E fail \in FaultChoices :
            /\ faults' = CountFault(fail)
            /\ ha' = [ha EXCEPT ![c].pc = "chat", ![c].failed = fail]
            /\ UNCHANGED <<emitted, chats, typing, rooms, onlineUsers, readMessages>>
  /\ UNCHANGED actFixed

\* handleMarkMessagesAsRead after getChatById: for a participant the receipts
\* are inserted, of the named messages or of the whole chat
MarkChatReply(c) ==
  /\ ha[c].pc = "chat"
  /\ ha[c].kind = "message:mark-read"
  /\ LET chat == GetChatById(ha[c].chatId)
         userId == session[c].userId IN
     IF ha[c].failed
     THEN /\ ActDone(c, "Failed to mark messages as read")
          /\ UNCHANGED <<readMessages, faults>>
     ELSE IF chat = NoChat \/ ~IsParticipant(chat, userId)
     THEN /\ ActDone(c, "Access denied")
          /\ UNCHANGED <<readMessages, faults>>
     ELSE \E fail \in FaultChoices :
            /\ readMessages' =
                 IF fail THEN readMessages
                 ELSE IF ha[c].messageIds # {}
                 THEN MarkMessageAsRead(readMessages, ha[c].messageIds, userId)
                 ELSE MarkChatMessagesAsRead(messages, readMessages, ha[c].chatId, userId)
            /\ faults' = CountFault(fail)
            /\ ha' = [ha EXCEPT ![c].pc = "mark", ![c].failed = fail,
                                ![c].changed = (readMessages' # readMessages)]
  /\ UNCHANGED <<vf, emitted, chats, typing, rooms, onlineUsers>>
  /\ UNCHANGED actFixed

\* handleMarkMessagesAsRead after the INSERT: getUnreadCountForChat(chatId,
\* client.userId) is issued
MarkReply(c) ==
  /\ ha[c].pc = "mark"
  /\ IF ha[c].failed
     THEN /\ ActDone(c, "Failed to mark messages as read")
          /\ UNCHANGED faults
     ELSE \E fail \in FaultChoices :
            /\ faults' = CountFault(fail)
            /\ ha' = [ha EXCEPT ![c].pc = "count", ![c].failed = fail,
                                ![c].unread = IF fail THEN Null
                                  ELSE GetUnreadCountForChat(messages, readMessages,
                                                             ha[c].chatId,
                                                             session[c].userId)]
  /\ UNCHANGED <<vf, emitted, chats, typing, rooms, onlineUsers, readMessages>>
  /\ UNCHANGED actFixed

\* the room `user:${recipientId}`
UserRoom(userId) == <<"user", userId>>

\* handleMarkMessagesAsRead after getUnreadCountForChat: unread:updated goes
\* to the caller, message:read to the room user:{other party}
MarkCountReply(c) ==
  /\ ha[c].pc = "count"
  /\ IF ha[c].failed
     THEN /\ ActDone(c, "Failed to mark messages as read")
          /\ UNCHANGED emitted
     ELSE LET chat == GetChatById(ha[c].chatId)
              recipientId == OtherParty(chat, session[c].userId) IN
          /\ emitted' = emitted \cup
               {ChatEvent("unread:updated", ToSocket(c), Null, ha[c].chatId,
                          ha[c].unread, c),
                ChatEvent("message:read", UserRoom(recipientId), session[c].userId,
                          ha[c].chatId, Null, c)}
          /\ ActDone(c, "success")
  /\ UNCHANGED <<vf, faults, chats, typing, rooms, onlineUsers, readMessages>>
  /\ UNCHANGED actFixed

\* ------------------------------------------------------------------- time

\* the clock advances by one presence TTL; Redis drops the keys whose TTL
\* has run out (a typing key lives 10 s)
Tick ==
  /\ now < EndTime
  /\ now' = now + PresenceTTL
  /\ tokenCache' = [t \in Tokens |->
                      IF Live(tokenCache[t], now') THEN tokenCache[t] ELSE NoEntry]
  /\ presence' = [u \in Users |->
                    IF Live(presence[u], now') THEN presence[u] ELSE NoPresence]
  /\ typing' = {}
  /\ UNCHANGED <<faults, vf, http, reqs, sock, session, userSockets, onlineUsers, rooms,
                 emitted, hc, hd, hr, added, ha, chats, acts>>
  /\ UNCHANGED sendVars

\* ----------------------------------------------------------- specifications

Init ==
  /\ now = StartTime
  /\ faults = 0
  /\ tokenCache = [t \in Tokens |-> NoEntry]
  /\ vf = [p \in Procs |-> IdleFrame]
  /\ http = [pc |-> "idle", userId |-> Null]
  /\ reqs = 0
  /\ sock = [c \in Conns |-> "new"]
  /\ session = [c \in Conns |-> NoSession]
  /\ userSockets = [u \in {} |-> {}]
  /\ presence = [u \in Users |-> NoPresence]
  /\ onlineUsers = {}
  /\ rooms = [c \in Conns |-> {}]
  /\ emitted = {}
  /\ hc = [c \in Conns |-> IdleHc]
  /\ hd = [c \in Conns |-> IdleHd]
  /\ hr = [c \in Conns |-> IdleHr]
  /\ hm = [c \in Conns |-> IdleHm]
  /\ messages = <<>>
  /\ readMessages = {}
  /\ notifications = <<>>
  /\ added = {}
  /\ ha = [c \in Conns |-> IdleHa]
  /\ chats = Chats
  /\ typing = {}
  /\ acts = 0

\* the Auth Coordinator alone, driven by the HTTP guard
NextAuth ==
  \/ HttpRequest
  \/ HttpResume
  \/ \E p \in Procs : VerifyGetReply(p)
  \/ \E p \in Procs : VerifyRemoteReply(p)
  \/ \E p \in Procs : VerifySetexReply(p)
  \/ Tick

SpecAuth == Init /\ [][NextAuth]_vars

\* two connections: connect, disconnect, and the clock
Next ==
  \/ \E c \in Conns : Connect(c)
  \/ \E p \in Procs : VerifyGetReply(p)
  \/ \E p \in Procs : VerifyRemoteReply(p)
  \/ \E p \in Procs : VerifySetexReply(p)
  \/ \E c \in Conns : ConnResume(c)
  \/ \E c \in Conns : ConnSetexReply(c)
  \/ \E c \in Conns : ConnSaddReply(c)
  \/ \E c \in Conns : ConnChatsReply(c)
  \/ \E c \in Conns : Disconnect(c)
  \/ \E c \in Conns : DiscDelReply(c)
  \/ \E c \in Conns : DiscSremReply(c)
  \/ Tick

Spec == Init /\ [][Next]_vars

\* every awaited call of verifyToken and handleConnection returns or fails:
\* a reply step that stays enabled is eventually taken
ConnectFairness ==
  /\ \A c \in Conns : WF_vars(VerifyGetReply(ConnProc(c)))
  /\ \A c \in Conns : WF_vars(VerifyRemoteReply(ConnProc(c)))
  /\ \A c \in Conns : WF_vars(VerifySetexReply(ConnProc(c)))
  /\ \A c \in Conns : WF_vars(ConnResume(c))
  /\ \A c \in Conns : WF_vars(ConnSetexReply(c))
  /\ \A c \in Conns : WF_vars(ConnSaddReply(c))
  /\ \A c \in Conns : WF_vars(ConnChatsReply(c))

SpecLive == Spec /\ ConnectFairness

\* the connection whose client also sends auth:refresh-token
RefreshConns == {"c1"}

\* one connection: connect, disconnect, refresh-token, and the clock
NextRefresh ==
  \/ \E c \in RefreshConns : Connect(c)
  \/ \E p \in Procs : VerifyGetReply(p)
  \/ \E p \in Procs : VerifyRemoteReply(p)
  \/ \E p \in Procs : VerifySetexReply(p)
  \/ \E c \in RefreshConns : ConnResume(c)
  \/ \E c \in RefreshConns : ConnSetexReply(c)
  \/ \E c \in RefreshConns : ConnSaddReply(c)
  \/ \E c \in RefreshConns : ConnChatsReply(c)
  \/ \E c \in RefreshConns : Disconnect(c)
  \/ \E c \in RefreshConns : DiscDelReply(c)
  \/ \E c \in RefreshConns : DiscSremReply(c)
  \/ \E c \in RefreshConns : RefreshToken(c)
  \/ \E c \in RefreshConns : RefreshResume(c)
  \/ \E c \in RefreshConns : RefreshSetexReply(c)
  \/ \E c \in RefreshConns : RefreshSaddReply(c)
  \/ Tick

SpecRefresh == Init /\ [][NextRefresh]_vars

\* the connection whose client sends message:send
SendConns == {"c1"}

\* one connection that connects and sends messages, and the clock
NextSend ==
  \/ \E c \in SendConns : Connect(c)
  \/ \E p \in Procs : VerifyGetReply(p)
  \/ \E p \in Procs : VerifyRemoteReply(p)
  \/ \E p \in Procs : VerifySetexReply(p)
  \/ \E p \in Procs : VerifyFastGetReply(p)
  \/ \E c \in SendConns : ConnResume(c)
  \/ \E c \in SendConns : ConnSetexReply(c)
  \/ \E c \in SendConns : ConnSaddReply(c)
  \/ \E c \in SendConns : ConnChatsReply(c)
  \/ \E c \in SendConns : SendMessage(c)
  \/ \E c \in SendConns : SendResume(c)
  \/ \E c \in SendConns : SendChatReply(c)
  \/ \E c \in SendConns : SendCreateReply(c)
  \/ \E c \in SendConns : SendUnreadReply(c)
  \/ \E c \in SendConns : SendOnlineReply(c)
  \/ NotifyReply
  \/ Tick

\* the users another process of the service holds a connection of when this
\* one starts: none, or user 2
PeerOnline == {{}, {2}}

\* the state after construction, the presence keys of the users connected to
\* another process being set in Redis
InitSend ==
  /\ \E peers \in PeerOnline :
       /\ presence = [u \in Users |-> IF u \in peers
                                      THEN Setex(PresenceTTL, "peer", StartTime)
                                      ELSE NoPresence]
       /\ onlineUsers = peers
  /\ now = StartTime
  /\ faults = 0
  /\ tokenCache = [t \in Tokens |-> NoEntry]
  /\ vf = [p \in Procs |-> IdleFrame]
  /\ http = [pc |-> "idle", userId |-> Null]
  /\ reqs = 0
  /\ sock = [c \in Conns |-> "new"]
  /\ session = [c \in Conns |-> NoSession]
  /\ userSockets = [u \in {} |-> {}]
  /\ rooms = [c \in Conns |-> {}]
  /\ emitted = {}
  /\ hc = [c \in Conns |-> IdleHc]
  /\ hd = [c \in Conns |-> IdleHd]
  /\ hr = [c \in Conns |-> IdleHr]
  /\ hm = [c \in Conns |-> IdleHm]
  /\ messages = <<>>
  /\ readMessages = {}
  /\ notifications = <<>>
  /\ added = {}
  /\ ha = [c \in Conns |-> IdleHa]
  /\ chats = Chats
  /\ typing = {}
  /\ acts = 0

SpecSend == InitSend /\ [][NextSend]_vars

\* one connection and the handlers of its events
ActConns == {"c1"}

NextActs ==
  \/ \E c \in ActConns : Connect(c)
  \/ \E p \in Procs : VerifyGetReply(p)
  \/ \E p \in Procs : VerifyRemoteReply(p)
  \/ \E p \in Procs : VerifySetexReply(p)
  \/ \E p \in Procs : VerifyFastGetReply(p)
  \/ \E c \in ActConns : ConnResume(c)
  \/ \E c \in ActConns : ConnSetexReply(c)
  \/ \E c \in ActConns : ConnSaddReply(c)
  \/ \E c \in ActConns : ConnChatsReply(c)
  \/ \E c \in ActConns : SendMessage(c)
  \/ \E c \in ActConns : SendResume(c)
  \/ \E c \in ActConns : SendChatReply(c)
  \/ \E c \in ActConns : SendCreateReply(c)
  \/ \E c \in ActConns : SendUnreadReply(c)
  \/ \E c \in ActConns : SendOnlineReply(c)
  \/ \E c \in ActConns : HandleTyping(c)
  \/ \E c \in ActConns : TypingResume(c)
  \/ \E c \in ActConns : TypingReply(c)
  \/ \E c \in ActConns : HandleJoinChat(c)
  \/ \E c \in ActConns : JoinResume(c)
  \/ \E c \in ActConns : JoinChatReply(c)
  \/ \E c \in ActConns : JoinMsgsReply(c)
  \/ \E c \in ActConns : HandleCreateChat(c)
  \/ \E c \in ActConns : CreateChatResume(c)
  \/ \E c \in ActConns : CreateChatReply(c)
  \/ \E c \in ActConns : HandleGetOnlineUsers(c)
  \/ \E c \in ActConns : OnlineUsersResume(c)
  \/ \E c \in ActConns : OnlineUsersReply(c)
  \/ \E c \in ActConns : OnlineExistsReply(c)
  \/ \E c \in ActConns : OnlineSremReply(c)
  \/ \E c \in ActConns : HandleMarkMessagesAsRead(c)
  \/ \E c \in ActConns : MarkResume(c)
  \/ \E c \in ActConns : MarkChatReply(c)
  \/ \E c \in ActConns : MarkReply(c)
  \/ \E c \in ActConns : MarkCountReply(c)
  \/ Tick

SpecActs == Init /\ [][NextActs]_vars

\* chat.messages when the process starts: empty, or one message of user 2 in
\* chat X that an earlier run stored
StoredMessages == {<<>>, <<[chat_id |-> "X", sender_id |-> 2, text |-> "hi"]>>}

\* the state after construction over a store that may hold a message, for
\* runs in which Redis and the store reject no command (no fault is left)
InitStored ==
  /\ now = StartTime
  /\ faults = MaxFaults
  /\ tokenCache = [t \in Tokens |-> NoEntry]
  /\ vf = [p \in Procs |-> IdleFrame]
  /\ http = [pc |-> "idle", userId |-> Null]
  /\ reqs = 0
  /\ sock = [c \in Conns |-> "new"]
  /\ session = [c \in Conns |-> NoSession]
  /\ userSockets = [u \in {} |-> {}]
  /\ presence = [u \in Users |-> NoPresence]
  /\ onlineUsers = {}
  /\ rooms = [c \in Conns |-> {}]
  /\ emitted = {}
  /\ hc = [c \in Conns |-> IdleHc]
  /\ hd = [c \in Conns |-> IdleHd]
  /\ hr = [c \in Conns |-> IdleHr]
  /\ hm = [c \in Conns |-> IdleHm]
  /\ messages \in StoredMessages
  /\ readMessages = {}
  /\ notifications = <<>>
  /\ added = {}
  /\ ha = [c \in Conns |-> IdleHa]
  /\ chats = Chats
  /\ typing = {}
  /\ acts = 0

\* two connections that mark messages read
NextRead ==
  \/ \E c \in Conns : Connect(c)
  \/ \E p \in Procs : VerifyGetReply(p)
  \/ \E p \in Procs : VerifyRemoteReply(p)
  \/ \E p \in Procs : VerifySetexReply(p)
  \/ \E p \in Procs : VerifyFastGetReply(p)
  \/ \E c \in Conns : ConnResume(c)
  \/ \E c \in Conns : ConnSetexReply(c)
  \/ \E c \in Conns : ConnSaddReply(c)
  \/ \E c \in Conns : ConnChatsReply(c)
  \/ \E c \in Conns : HandleMarkMessagesAsRead(c)
  \/ \E c \in Conns : MarkResume(c)
  \/ \E c \in Conns : MarkChatReply(c)
  \/ \E c \in Conns : MarkReply(c)
  \/ \E c \in Conns : MarkCountReply(c)

SpecRead == InitStored /\ [][NextRead]_vars

\* the state after construction over a store that is empty, or that holds
\* one row more of chat X than a page of getMessages, and two rows of chat Y
InitJoin ==
  /\ now = StartTime
  /\ faults = 0
  /\ tokenCache = [t \in Tokens |-> NoEntry]
  /\ vf = [p \in Procs |-> IdleFrame]
  /\ http = [pc |-> "idle", userId |-> Null]
  /\ reqs = 0
  /\ sock = [c \in Conns |-> "new"]
  /\ session = [c \in Conns |-> NoSession]
  /\ userSockets = [u \in {} |-> {}]
  /\ presence = [u \in Users |-> NoPresence]
  /\ onlineUsers = {}
  /\ rooms = [c \in Conns |-> {}]
  /\ emitted = {}
  /\ hc = [c \in Conns |-> IdleHc]
  /\ hd = [c \in Conns |-> IdleHd]
  /\ hr = [c \in Conns |-> IdleHr]
  /\ hm = [c \in Conns |-> IdleHm]
  /\ messages \in {<<>>,
                   [i \in 1..(DefaultLimit + 3) |->
                      [chat_id |-> IF i \in {2, DefaultLimit} THEN "Y" ELSE "X",
                       sender_id |-> 1 + (i % 2), text |-> "hi"]]}
  /\ readMessages = {}
  /\ notifications = <<>>
  /\ added = {}
  /\ ha = [c \in Conns |-> IdleHa]
  /\ chats = Chats
  /\ typing = {}
  /\ acts = 0

\* one connection: connect, chat:join and chat:create, the two handlers that
\* join sockets to rooms
NextJoin ==
  \/ \E c \in ActConns : Connect(c)
  \/ \E p \in Procs : VerifyGetReply(p)
  \/ \E p \in Procs : VerifyRemoteReply(p)
  \/ \E p \in Procs : VerifySetexReply(p)
  \/ \E p \in Procs : VerifyFastGetReply(p)
  \/ \E c \in ActConns : ConnResume(c)
  \/ \E c \in ActConns : ConnSetexReply(c)
  \/ \E c \in ActConns : ConnSaddReply(c)
  \/ \E c \in ActConns : ConnChatsReply(c)
  \/ \E c \in ActConns : HandleJoinChat(c)
  \/ \E c \in ActConns : JoinResume(c)
  \/ \E c \in ActConns : JoinChatReply(c)
  \/ \E c \in ActConns : JoinMsgsReply(c)
  \/ \E c \in ActConns : HandleCreateChat(c)
  \/ \E c \in ActConns : CreateChatResume(c)
  \/ \E c \in ActConns : CreateChatReply(c)

SpecJoin == InitJoin /\ [][NextJoin]_vars

\* the first auth:refresh-token of a connection
FirstRefreshToken(c) == hr[c].result = "" /\ RefreshToken(c)

\* one connection that sends messages and refreshes its token once
NextSendRefresh ==
  \/ \E c \in SendConns : Connect(c)
  \/ \E p \in Procs : VerifyGetReply(p)
  \/ \E p \in Procs : VerifyRemoteReply(p)
  \/ \E p \in Procs : VerifySetexReply(p)
  \/ \E p \in Procs : VerifyFastGetReply(p)
  \/ \E c \in SendConns : ConnResume(c)
  \/ \E c \in SendConns : ConnSetexReply(c)
  \/ \E c \in SendConns : ConnSaddReply(c)
  \/ \E c \in SendConns : ConnChatsReply(c)
  \/ \E c \in SendConns : FirstRefreshToken(c)
  \/ \E c \in SendConns : RefreshResume(c)
  \/ \E c \in SendConns : RefreshSetexReply(c)
  \/ \E c \in SendConns : RefreshSaddReply(c)
  \/ \E c \in SendConns : SendMessage(c)
  \/ \E c \in SendConns : SendResume(c)
  \/ \E c \in SendConns : SendChatReply(c)
  \/ \E c \in SendConns : SendCreateReply(c)
  \/ \E c \in SendConns : SendUnreadReply(c)
  \/ \E c \in SendConns : SendOnlineReply(c)

\* the state after construction over an empty store, for runs in which
\* Redis and the store reject no command
InitCalm == InitStored /\ messages = <<>>

SpecSendRefresh == InitCalm /\ [][NextSendRefresh]_vars

\* two connections connect, one of them sends message:send, and the clock;
\* no Redis or store command is rejected
NextPair ==
  \/ \E c \in Conns : Connect(c)
  \/ \E p \in Procs : VerifyGetReply(p)
  \/ \E p \in Procs : VerifyRemoteReply(p)
  \/ \E p \in Procs : VerifySetexReply(p)
  \/ \E p \in Procs : VerifyFastGetReply(p)
  \/ \E c \in Conns : ConnResume(c)
  \/ \E c \in Conns : ConnSetexReply(c)
  \/ \E c \in Conns : ConnSaddReply(c)
  \/ \E c \in Conns : ConnChatsReply(c)
  \/ \E c \in ActConns : SendMessage(c)
  \/ \E c \in ActConns : SendResume(c)
  \/ \E c \in ActConns : SendChatReply(c)
  \/ \E c \in ActConns : SendCreateReply(c)
  \/ \E c \in ActConns : SendUnreadReply(c)
  \/ \E c \in ActConns : SendOnlineReply(c)
  \/ Tick

SpecPair == InitCalm /\ [][NextPair]_vars

\* two connections connect, one of them sends chat:create; no Redis or
\* store command is rejected and no TTL runs out
NextCreate ==
  \/ \E c \in Conns : Connect(c)
  \/ \E p \in Procs : VerifyGetReply(p)
  \/ \E p \in Procs : VerifyRemoteReply(p)
  \/ \E p \in Procs : VerifySetexReply(p)
  \/ \E p \in Procs : VerifyFastGetReply(p)
  \/ \E c \in Conns : ConnResume(c)
  \/ \E c \in Conns : ConnSetexReply(c)
  \/ \E c \in Conns : ConnSaddReply(c)
  \/ \E c \in Conns : ConnChatsReply(c)
  \/ \E c \in ActConns : HandleCreateChat(c)
  \/ \E c \in ActConns : CreateChatResume(c)
  \/ \E c \in ActConns : CreateChatReply(c)

SpecCreate == InitCalm /\ [][NextCreate]_vars

\* two connections connect, one of them sends users:online, and the clock,
\* beside a process whose users' presence keys run out
NextOnline ==
  \/ \E c \in Conns : Connect(c)
  \/ \E p \in Procs : VerifyGetReply(p)
  \/ \E p \in Procs : VerifyRemoteReply(p)
  \/ \E p \in Procs : VerifySetexReply(p)
  \/ \E p \in Procs : VerifyFastGetReply(p)
  \/ \E c \in Conns : ConnResume(c)
  \/ \E c \in Conns : ConnSetexReply(c)
  \/ \E c \in Conns : ConnSaddReply(c)
  \/ \E c \in Conns : ConnChatsReply(c)
  \/ \E c \in ActConns : HandleGetOnlineUsers(c)
  \/ \E c \in ActConns : OnlineUsersResume(c)
  \/ \E c \in ActConns : OnlineUsersReply(c)
  \/ \E c \in ActConns : OnlineExistsReply(c)
  \/ \E c \in ActConns : OnlineSremReply(c)
  \/ Tick

SpecOnline == InitSend /\ [][NextOnline]_vars

\* two connections connect, one of them sends typing:start and typing:stop;
\* no Redis command is rejected and no TTL runs out
NextTyping ==
  \/ \E c \in Conns : Connect(c)
  \/ \E p \in Procs : VerifyGetReply(p)
  \/ \E p \in Procs : VerifyRemoteReply(p)
  \/ \E p \in Procs : VerifySetexReply(p)
  \/ \E p \in Procs : VerifyFastGetReply(p)
  \/ \E c \in Conns : ConnResume(c)
  \/ \E c \in Conns : ConnSetexReply(c)
  \/ \E c \in Conns : ConnSaddReply(c)
  \/ \E c \in Conns : ConnChatsReply(c)
  \/ \E c \in ActConns : HandleTyping(c)
  \/ \E c \in ActConns : TypingResume(c)
  \/ \E c \in ActConns : TypingReply(c)

SpecTyping == InitCalm /\ [][NextTyping]_vars

\* ------------------------------------------------------------------ claims

\* the open connections whose session holds user u
LiveSessions(u) == {c \in Conns : sock[c] = "open" /\ session[c].userId = u}

\* no handler is suspended at an await
Quiet ==
  /\ \A p \in Procs : vf[p].pc = "idle"
  /\ \A c \in Conns : /\ hc[c].pc \in {"idle", "done", "rejected"}
                      /\ hd[c].pc \in {"idle", "done"}
                      /\ hr[c].pc = "idle"
                      /\ hm[c].pc = "idle"
  /\ http.pc # "verifying"

\* C1: whatever the interleaving of connect and disconnect handlers (no Redis
\* command rejected, no TTL run out): once handleConnection has completed on
\* a connection that is still open, the presence key of its user is set; and
\* a presence key is set only while some open connection holds that user, so
\* it is gone once the user's last session has disconnected.
C1_PresenceFollowsSessions ==
  (faults = 0 /\ now = StartTime) =>
    \A u \in Users :
      /\ (\E c \in LiveSessions(u) : hc[c].pc = "done") => IsUserOnline(u)
      /\ IsUserOnline(u) => LiveSessions(u) # {}

\* C2: whenever no handler is in flight, a user has a live presence key if
\* and only if one of the open connections holds that user.
C2_OnlineIffLiveConnection ==
  (faults = 0 /\ Quiet) =>
    \A u \in Users : IsUserOnline(u) <=> LiveSessions(u) # {}

\* C3: every socket id in userSockets under u is an open connection whose
\* session holds u.
C3_RegistryHoldsLiveSessions ==
  \A u \in DOMAIN userSockets :
    \A c \in userSockets[u] : sock[c] = "open" /\ session[c].userId = u

\* C4: userSockets maps u to exactly the socket ids added under u and not
\* removed since, and has no entry for u when there are none (no user maps
\* to an empty set).
C4_RegistryIsAddsMinusRemoves ==
  \A u \in Users \cup DOMAIN userSockets :
    LET ids == {c \in Conns : <<u, c>> \in added} IN
    /\ u \in DOMAIN userSockets <=> ids # {}
    /\ u \in DOMAIN userSockets => userSockets[u] = ids

\* C4 witness: c1 and c2 were both added under user 1, c1 has been removed,
\* and the entry of user 1 is {c2}
C4_Witness ==
  /\ 1 \in DOMAIN userSockets
  /\ userSockets[1] = {"c2"}
  /\ sock["c1"] = "closed"
  /\ Event("user:online", ToAll, "", 1, "c1") \in emitted
  /\ hd["c1"].pc = "done"

\* C5: a verifyToken call answered from the token cache returns an identity
\* only for a token whose own exp claim has not passed.
C5_CacheHitNotPastExp ==
  \A p \in Procs :
    (vf[p].pc = "ret" /\ vf[p].fn = "verifyToken" /\ vf[p].hit /\ vf[p].ret.id # Null)
      => ~Expired(vf[p].token, now)

\* C6: a message:send that arrives on a session whose token has passed its exp
\* claim ends in TOKEN_EXPIRED with auth:token-expired emitted, and persists
\* no message.
C6_ExpiredTokenSendRejected ==
  \A c \in Conns :
    (faults = 0 /\ hm[c].expired) =>
      /\ hm[c].msgId = Null
      /\ hm[c].pc = "idle" =>
           /\ hm[c].result = "TOKEN_EXPIRED"
           /\ Event("auth:token-expired", ToSocket(c), "TOKEN_EXPIRED", Null, c) \in emitted

\* a token carries a subject id (ids of users; id 0 is left aside)
HasSubject(t) == t.kind = "jwt" /\ t.id \in Users

\* C7: parseTokenLocally yields the subject id of a token that has one and an
\* exp claim in the future, and null for a token whose exp claim is in the
\* past (0 included) or that has no subject id or does not parse.
C7_FastCheckByExp ==
  \A p \in Procs :
    LET t == vf[p].token IN
    (vf[p].at # 0) =>
      /\ (HasSubject(t) /\ t.exp # Null /\ t.exp > vf[p].at) => vf[p].localUserId = t.id
      /\ (t.exp # Null /\ t.exp < vf[p].at) => vf[p].localUserId = Null
      /\ (t.kind # "jwt" \/ t.id = Null) => vf[p].localUserId = Null

\* C8: a verifyToken call whose remote call was answered 401 or 403 returns
\* null.
C8_RejectionReturnsNull ==
  \A p \in Procs :
    (vf[p].pc = "ret" /\ vf[p].outcome.kind = "axios"
       /\ vf[p].outcome.status \in RejectStatuses)
      => vf[p].ret = Ret(Null)

\* C8 witness: a 401 for a token that passed the local check, null returned
C8_Witness ==
  \E p \in Procs :
    /\ vf[p].pc = "ret"
    /\ vf[p].outcome.status = 401
    /\ Truthy(vf[p].localUserId)
    /\ vf[p].ret = Ret(Null)

\* connection refused, timeout (of the connection, of the request),
\* unresolvable host
NetFailure(o) == o.kind = "axios" /\ o.code \in NetCodes

\* C9: a verifyToken call that found no token-cache entry and whose remote
\* call ended in a network failure returns the locally decoded subject id,
\* and the fast-check succeeded on its token; a call that found no entry and
\* whose token fails the fast-check returns null.
C9_NetFailureFallsBackIffFastCheck ==
  \A p \in Procs :
    LET f == vf[p]
        local == ParseTokenLocally(f.token, f.at) IN
    (f.pc = "ret" /\ f.fn = "verifyToken" /\ ~f.hit /\ ~f.failed /\ f.at # 0) =>
      /\ NetFailure(f.outcome) => (Truthy(local) /\ f.ret = Ret(local))
      /\ ~Truthy(local) => f.ret = Ret(Null)

\* C9 witness: connection refused, the local id returned
C9_Witness ==
  \E p \in Procs :
    /\ vf[p].pc = "ret"
    /\ ~vf[p].hit
    /\ vf[p].outcome.code = "ECONNREFUSED"
    /\ vf[p].ret = Ret(vf[p].token.id)
    /\ vf[p].token.id \in Users

\* handleConnection of c rejected for want of a token, or because verifyToken
\* returned null or threw
AuthRejected(c) == hc[c].pc = "rejected" /\ hc[c].stage \in {"start", "verify"}

\* C10: a connection rejected at authentication has been sent auth:error and
\* is closed, is in no registry entry, is the value of no presence key, has
\* caused no user:online and has joined no room.
C10_RejectedLeavesNoTrace ==
  \A c \in Conns :
    AuthRejected(c) =>
      /\ sock[c] = "closed"
      /\ \E e \in emitted : e.ev = "auth:error" /\ e.to = ToSocket(c)
      /\ \A u \in DOMAIN userSockets : c \notin userSockets[u]
      /\ \A u \in Users : presence[u].val # c
      /\ \A e \in emitted : ~(e.ev = "user:online" /\ e.by = c)
      /\ rooms[c] = {}

\* C10 witness: verifyToken returned null or threw, and the connection was
\* rejected, while the other connection is registered
C10_Witness ==
  /\ AuthRejected("c1")
  /\ hc["c1"].stage = "verify"
  /\ hc["c2"].pc = "done"

\* C11: when handleConnection completes for user u on a connection that is
\* still open (no TTL having run out meanwhile), the session holds u and a
\* token of u, the socket id is in userSockets under u, the presence key of u
\* is set, user:online{u} has been emitted to all, and the socket is in the
\* room of every chat u is buyer or seller of.
C11_ConnectSuccessEstablishesSession ==
  [][\A c \in Conns :
       (hc[c].pc = "chats" /\ hc'[c].pc = "done" /\ sock'[c] = "open"
          /\ now' = StartTime) =>
         LET u == hc[c].userId IN
         /\ session'[c].userId = u
         /\ TokenGiven(session'[c].token) /\ session'[c].token.id = u
         /\ u \in DOMAIN userSockets' /\ c \in userSockets'[u]
         /\ Live(presence'[u], now')
         /\ Event("user:online", ToAll, "", u, c) \in emitted'
         /\ \A ch \in chats' :
              (ch.buyer_id = u \/ ch.seller_id = u) => RoomOf(ch.id) \in rooms'[c]]_vars

\* C11 witness: handleConnection has completed for user 2, the seller of the
\* chat, on an open connection that is in the chat's room
C11_Witness ==
  /\ hc["c1"].pc = "done"
  /\ sock["c1"] = "open"
  /\ session["c1"].userId = 2
  /\ RoomOf("X") \in rooms["c1"]
  /\ IsUserOnline(2)

\* verifyTokenFast has returned to the handler whose frame is h, with a
\* result that is absent or is not the session's user id
FastVerifyRefuses(c, h, p) ==
  /\ h[c].pc = "verify"
  /\ vf[p].pc = "ret"
  /\ ~vf[p].ret.thrown
  /\ (~Truthy(vf[p].ret.id) \/ vf[p].ret.id # session[c].userId)

\* the step leaves everything but the caller's auth:token-expired as it was
OnlyTokenExpiredTo(c) ==
  /\ Event("auth:token-expired", ToSocket(c), "TOKEN_EXPIRED", Null, c) \in emitted'
  /\ emitted' \ emitted \subseteq
       {Event("auth:token-expired", ToSocket(c), "TOKEN_EXPIRED", Null, c)}
  /\ UNCHANGED <<messages, readMessages, chats, notifications, typing, presence,
                 tokenCache, onlineUsers, rooms, sock, session, userSockets>>

\* C12: when verifyTokenFast returns absent, or an id that is not the
\* session's, to handleMessage, handleTypingStart/Stop, handleJoinChat,
\* handleCreateChat, handleGetOnlineUsers or handleMarkMessagesAsRead, the
\* handler emits auth:token-expired to the caller and stops: no store write,
\* no cache write, no room join, no other emission, the socket is left as it
\* is (not closed) and the session keeps its user id and token.
C12_GateFailureAbortsHandler ==
  [][\A c \in Conns :
       /\ (FastVerifyRefuses(c, ha, ActProc(c)) /\ ha'[c] # ha[c]) =>
            (OnlyTokenExpiredTo(c) /\ ha'[c].pc = "idle")
       /\ (FastVerifyRefuses(c, hm, SendProc(c)) /\ hm'[c] # hm[c]) =>
            (OnlyTokenExpiredTo(c) /\ hm'[c].pc = "idle")]_vars

\* C12 witness: a message:mark-read and a message:send were turned away at
\* the gate on an open connection
C12_Witness ==
  /\ sock["c1"] = "open"
  /\ ha["c1"].kind = "message:mark-read"
  /\ ha["c1"].result = "TOKEN_EXPIRED"
  /\ hm["c1"].result = "TOKEN_EXPIRED"
  /\ Event("auth:token-expired", ToSocket("c1"), "TOKEN_EXPIRED", Null, "c1") \in emitted

\* C13: the sender id handleMessage writes with a message is the user id that
\* passed the fast-verify of that same handleMessage, also when
\* auth:refresh-token arrives on the connection while the send is in progress
\* (handlers of one connection do not interleave).
C13_SenderIsVerifiedUser ==
  [][\A c \in Conns :
       (hm[c].pc = "chat" /\ Len(messages') = Len(messages) + 1) =>
         messages'[Len(messages')].sender_id = hm[c].gateId]_vars

\* getChatById has answered handleMessage of c: the chat does not exist or
\* the session's user is neither its buyer nor its seller
NotOfChat(c) ==
  /\ hm[c].pc = "chat"
  /\ ~hm[c].failed
  /\ LET chat == GetChatById(hm[c].chatId) IN
       \/ chat = NoChat
       \/ (chat.buyer_id # session[c].userId /\ chat.seller_id # session[c].userId)

\* C14: message:send on a chat that does not exist, or by a caller who is
\* neither buyer nor seller of the chat, returns an error result, persists no
\* message and emits nothing.
C14_NonParticipantSendRejected ==
  [][\A c \in Conns :
       (NotOfChat(c) /\ hm'[c] # hm[c]) =>
         /\ hm'[c].pc = "idle"
         /\ hm'[c].result \in {"Chat not found", "Access denied"}
         /\ hm'[c].msgId = Null
         /\ UNCHANGED <<messages, emitted, notifications>>]_vars

\* C14 witness: user 1 sent to chat Y, of which it is no party, and was
\* denied; nothing is stored
C14_Witness ==
  /\ session["c1"].userId = 1
  /\ hm["c1"].pc = "idle"
  /\ hm["c1"].result = "Access denied"
  /\ messages = <<>>

\* handleMessage of c returns { success: true, message }
SendSucceeds(c) == hm[c].pc = "online" /\ hm'[c].pc = "idle" /\ hm'[c].result = "success"

\* C15: a successful message:send whose recipient had no live presence key
\* and whose text is non-blank makes exactly one offline-notification
\* dispatch; one whose recipient had a live presence key, or whose text is
\* blank, makes none; and no other step makes a dispatch, whatever the
\* outcome of an earlier one (no retry).
C15_OneDispatchIffOfflineAndText ==
  [][/\ \A c \in Conns :
          SendSucceeds(c) =>
            IF ~hm[c].online /\ hm[c].text # "" /\ hm[c].text # " "
            THEN /\ Len(notifications') = Len(notifications) + 1
                 /\ notifications'[Len(notifications')].msgId = hm[c].msgId
                 /\ notifications'[Len(notifications')].recipientId = hm[c].recipientId
            ELSE Len(notifications') = Len(notifications)
     /\ (\A c \in Conns : ~SendSucceeds(c)) => Len(notifications') = Len(notifications)
     /\ \A i \in 1..Len(notifications), j \in 1..Len(notifications) :
          notifications[i].msgId = notifications[j].msgId => i = j]_vars

\* C15 witness: the first message went to a recipient who was online and
\* made no dispatch; the second, after the recipient's presence key ran out,
\* made one, which failed and was not repeated
C15_Witness ==
  /\ Len(messages) = 2
  /\ hm["c1"].pc = "idle"
  /\ hm["c1"].result = "success"
  /\ Len(notifications) = 1
  /\ notifications[1].msgId = 2
  /\ notifications[1].state = "failed"

\* C16: a failed offline-notification dispatch changes nothing of the send:
\* when the dispatch is made the message is stored, message:new has been
\* emitted and the sender has its success result, and the failure leaves
\* the messages, the emitted events and the handler's result as they are.
C16_DispatchFailureSwallowed ==
  [][/\ Len(notifications') > Len(notifications) =>
          LET n == notifications'[Len(notifications')] IN
          /\ n.msgId \in 1..Len(messages')
          /\ \E e \in emitted' : e.ev = "message:new" /\ e.n = n.msgId
          /\ hm'[n.by].result = "success"
     /\ \A i \in 1..Len(notifications) :
          (Len(notifications') = Len(notifications)
             /\ notifications[i].state = "pending"
             /\ notifications'[i].state = "failed") =>
            UNCHANGED <<messages, emitted, hm>>]_vars

\* C16 witness: the dispatch for message 1 has failed; the message is stored
\* and the sender has its success result
C16_Witness ==
  /\ Len(notifications) = 1
  /\ notifications[1].state = "failed"
  /\ notifications[1].msgId = 1
  /\ Len(messages) = 1
  /\ hm[notifications[1].by].result = "success"
  /\ \E e \in emitted : e.ev = "message:new" /\ e.n = 1

\* handleMarkMessagesAsRead of c returns { success: true, unreadCount }
MarkSucceeds(c) ==
  /\ ha[c].pc = "count"
  /\ ha[c].kind = "message:mark-read"
  /\ ha'[c].pc = "idle"
  /\ ha'[c].result = "success"

\* the connections that are open, authenticated as user u and through
\* handleConnection
LiveAuthenticated(u) ==
  {s \in Conns : sock[s] = "open" /\ session[s].userId = u /\ hc[s].pc = "done"}

\* C17: when a message:mark-read of user u has lowered u's unread count of a
\* chat, every live session of u gets unread:updated with the new count.
C17_UnreadPushedToAllSessions ==
  [][\A c \in Conns :
       (MarkSucceeds(c) /\ ha[c].changed) =>
         \A s \in LiveAuthenticated(session[c].userId) :
           ChatEvent("unread:updated", ToSocket(s), Null, ha[c].chatId,
                     GetUnreadCountForChat(messages, readMessages, ha[c].chatId,
                                           session[c].userId), c) \in emitted']_vars

\* C19: message:mark-read without message ids is idempotent: its INSERT
\* leaves the caller with no unread message in the chat, adds no receipt
\* when the caller had none unread (as after an earlier such call with no
\* send since), and each call returns success with unread count 0.
C19_MarkReadIdempotent ==
  [][\A c \in Conns :
       LET u == session[c].userId
           chatId == ha[c].chatId IN
       /\ (ha[c].pc = "chat" /\ ha[c].kind = "message:mark-read"
             /\ ha[c].messageIds = {} /\ ha'[c].pc = "mark" /\ ~ha'[c].failed) =>
            /\ readMessages \subseteq readMessages'
            /\ GetUnreadCountForChat(messages, readMessages', chatId, u) = 0
            /\ GetUnreadCountForChat(messages, readMessages, chatId, u) = 0
                 => readMessages' = readMessages
       /\ (MarkSucceeds(c) /\ ha[c].messageIds = {}) => ha'[c].unread = 0]_vars

\* C19 witness: two message:mark-read of chat X without message ids by user
\* 1 have returned success with unread count 0; the first inserted a
\* receipt, the second none
C19_Witness ==
  /\ session["c1"].userId = 1 /\ session["c2"].userId = 1
  /\ \A c \in Conns :
       /\ ha[c].pc = "idle" /\ ha[c].kind = "message:mark-read"
       /\ ha[c].chatId = "X" /\ ha[c].messageIds = {}
       /\ ha[c].result = "success" /\ ha[c].unread = 0
  /\ ha["c1"].changed /\ ~ha["c2"].changed
  /\ readMessages = {<<1, 1>>}

\* C20: after a successful message:mark-read by user u in a chat, every live
\* session of the chat's other party gets message:read{chatId, userId: u}.
C20_ReadReceiptReachesOtherParty ==
  [][\A c \in Conns :
       MarkSucceeds(c) =>
         LET u == session[c].userId
             other == OtherParty(GetChatById(ha[c].chatId), u) IN
         \A s \in LiveAuthenticated(other) :
           \E e \in emitted' :
             /\ e.ev = "message:read" /\ e.chatId = ha[c].chatId /\ e.userId = u
             /\ (e.to = ToSocket(s) \/ e.to = ToAll \/ e.to \in rooms'[s])]_vars

\* C18: chat:create is idempotent on the unordered pair of parties: chat.chats
\* holds at most one chat of the pair {a, b}, whatever chat:create calls were
\* made and in whichever order the two ids were given.
C18_OneChatPerPair ==
  \A a \in Users \cup {Stranger}, b \in Users \cup {Stranger} :
    Cardinality(GetChatByUsers(chats, a, b)) <= 1

\* C21: when handleRefreshToken resumes after verifyToken: if an identity was
\* returned, the session's userId and token become that id and the new token
\* and, unless the setex command itself is rejected, the presence key of
\* that id is set to this socket for PresenceTTL (also when the session had
\* no userId); if verifyToken returned null or threw, the handler ends with
\* an error result and session, userSockets, presence key, online set and
\* socket are as before.
C21_RefreshOverwritesOnlyOnSuccess ==
  [][\A c \in Conns :
       (hr[c].pc = "verify" /\ hr'[c].pc # "verify") =>
         LET r == vf[RefreshProc(c)].ret IN
         IF ~r.thrown /\ r.id # Null
         THEN /\ session'[c] = [userId |-> r.id, token |-> hr[c].token]
              /\ ~hr'[c].failed =>
                   presence'[r.id] = [val |-> c, expireAt |-> now + PresenceTTL]
              /\ sock'[c] = sock[c]
              /\ userSockets' = userSockets
         ELSE /\ hr'[c].pc = "idle"
              /\ hr'[c].result \in {"Invalid token", "Failed to refresh token"}
              /\ UNCHANGED <<session, userSockets, presence, onlineUsers, sock>>]_vars

\* C21 witness: a refresh on an open connection whose session had no userId
\* has succeeded: the session holds user and token, the presence key is set
\* to this socket, and the registry has no entry of the socket
C21_Witness ==
  \E c \in Conns :
    /\ hr[c].result = "success"
    /\ hc[c].pc = "verify"
    /\ sock[c] = "open"
    /\ session[c].userId \in Users
    /\ session[c].token # NoToken
    /\ presence[session[c].userId].val = c
    /\ \A u \in DOMAIN userSockets : c \notin userSockets[u]

\* C22: no event handler ends by letting an exception leave it: a rejected
\* store or cache command, the token-cache lookup of verifyTokenFast
\* included, ends the handler with an error result.
C22_NoExceptionLeavesHandler ==
  \A c \in Conns : hm[c].result # "exception" /\ ha[c].result # "exception"

\* C23: message:new of a message is emitted in one step only, the one in
\* which the handleMessage that persisted it resumes after
\* getUnreadCountForChat: the message is in the store by then, the event was
\* not emitted before, it carries the message's id, chat and sender and goes
\* to the room of the message's chat; no other step emits a message:new, and
\* a handleMessage that returns success has emitted the one of its message.
C23_MessageNewOnceAfterPersist ==
  [][LET News(evs) == {e \in evs : e.ev = "message:new"} IN
     /\ \A e \in News(emitted') \ News(emitted) :
          \E c \in Conns :
            /\ hm[c].pc = "unread" /\ hm'[c].pc = "online"
            /\ e.n = hm[c].msgId
            /\ e.n \in 1..Len(messages)
            /\ messages[e.n].chat_id = e.chatId
            /\ messages[e.n].sender_id = e.userId
            /\ e.to = <<"chat", e.chatId>>
     /\ \A c \in Conns :
          (hm[c].pc = "unread" /\ hm'[c].pc = "online") =>
            /\ \A e \in News(emitted) : e.n # hm[c].msgId
            /\ \E e \in News(emitted') : e.n = hm[c].msgId
     /\ \A c \in Conns :
          (hm[c].pc # "idle" /\ hm'[c].pc = "idle" /\ hm'[c].result = "success") =>
            \E e \in News(emitted) : e.n = hm[c].msgId]_vars

\* C23 witness: two messages sent with success, one message:new for each,
\* both to the room of chat X
C23_Witness ==
  LET news == {e \in emitted : e.ev = "message:new"} IN
  /\ Len(messages) = 2
  /\ hm["c1"].result = "success"
  /\ hm["c1"].msgId = 2
  /\ Cardinality(news) = 2
  /\ \A e \in news : e.to = <<"chat", "X">> /\ e.n \in {1, 2}

\* C24: every unread:updated that handleMessage emits goes to one socket,
\* that socket is registered in userSockets under the recipient and is a
\* session of the recipient (not of the sender, not of a third user); none
\* goes to the chat's room.
C24_UnreadOnlyToRecipientSessions ==
  [][\A c \in Conns :
       (hm[c].pc = "unread" /\ hm'[c].pc = "online") =>
         \A e \in emitted' \ emitted :
           e.ev = "unread:updated" =>
             \E s \in Conns :
               /\ e.to = <<"socket", s>>
               /\ hm[c].recipientId \in DOMAIN userSockets
               /\ s \in userSockets[hm[c].recipientId]
               /\ session[s].userId = hm[c].recipientId]_vars

\* C25: a remote call is issued only by a verifyToken call, only as it
\* resumes after its token-cache lookup, and only when the lookup found no
\* entry and parseTokenLocally yields an id; once the remote call has ended
\* the call issues no other (at most one per call).  verifyTokenFast issues
\* none, so the calls of handleMessage and of the other event handlers
\* (refresh-token aside) never have a remote call in flight.
C25_AtMostOneRemoteCall ==
  [][\A p \in Procs :
       /\ (vf[p].pc # "v_remote" /\ vf'[p].pc = "v_remote") =>
            /\ vf[p].pc = "v_get"
            /\ vf[p].fn = "verifyToken"
            /\ ~vf[p].failed
            /\ vf[p].cached = NoEntry
            /\ Truthy(ParseTokenLocally(vf[p].token, now))
       /\ vf[p].pc = "v_remote" => vf'[p].pc \in {"v_remote", "v_setex", "ret"}
       /\ vf[p].pc = "v_setex" => vf'[p].pc \in {"v_setex", "ret"}
       /\ vf[p].pc = "ret" => vf'[p].pc \in {"ret", "idle"}
       /\ vf'[p].fn = "verifyTokenFast" => vf'[p].pc \in {"f_get", "ret"}
       /\ (\E c \in Conns : p \in {SendProc(c), ActProc(c)}) =>
            vf'[p].pc \in {"idle", "f_get", "ret"}]_vars

\* C25 witness: the remote call of a refresh-token's verifyToken is in
\* flight for a token that is not cached, while the token of the connection
\* is cached and the verifyTokenFast of a message:send has returned its user
C25_Witness ==
  \E c \in Conns :
    /\ vf[RefreshProc(c)].pc = "v_remote"
    /\ tokenCache[vf[RefreshProc(c)].token] = NoEntry
    /\ tokenCache[session[c].token] # NoEntry
    /\ hm[c].pc = "verify"
    /\ vf[SendProc(c)].pc = "ret"
    /\ vf[SendProc(c)].ret.id = session[c].userId

\* C26: an entry of the token cache is written only in the step in which a
\* verifyToken's remote call for that token is answered 200 with a user id
\* and the setex is accepted: the entry then spells exactly that id and
\* lives for TokenCacheTTL.  An entry otherwise changes only by running out
\* of its TTL.  A call that returns from the remote call or from the setex
\* (a rejection, a fallback identity, an identity) writes nothing as it
\* returns.
C26_CacheWrittenOnlyOnRemoteSuccess ==
  [][/\ \A t \in Tokens :
          tokenCache'[t] # tokenCache[t] =>
            IF tokenCache'[t] = NoEntry
            THEN now' > now /\ tokenCache[t].expireAt <= now'
            ELSE \E p \in Procs :
                   LET o == vf'[p].outcome IN
                   /\ vf[p].token = t
                   /\ vf[p].pc = "v_remote" /\ vf'[p].pc = "v_setex"
                   /\ ~vf'[p].failed
                   /\ o.kind = "ok" /\ o.status = 200
                   /\ o.dataId \in Users
                   /\ ParseInt(tokenCache'[t].val) = o.dataId
                   /\ tokenCache'[t].expireAt = now + TokenCacheTTL
     /\ \A p \in Procs :
          (vf[p].pc \in {"v_remote", "v_setex"} /\ vf'[p].pc = "ret") =>
            tokenCache' = tokenCache]_vars

\* C26 witness: a verifyToken answered 200 with the id of user 1 has
\* returned, and the entry of its token spells 1
C26_Witness ==
  /\ vf[HttpProc].pc = "ret"
  /\ vf[HttpProc].outcome.kind = "ok"
  /\ vf[HttpProc].outcome.dataId = 1
  /\ vf[HttpProc].ret = Ret(1)
  /\ ParseInt(tokenCache[vf[HttpProc].token].val) = 1
  /\ Live(tokenCache[vf[HttpProc].token], now)

\* C27: a verifyToken call that found no token-cache entry, whose token
\* passed parseTokenLocally and whose remote call failed with anything but a
\* 401 or a 403 (a 5xx status, another HTTP status, a failure without a
\* response, an error that is no AxiosError, a rejected setex after a 200)
\* returns the locally decoded subject id.
C27_OtherFailuresFallBack ==
  \A p \in Procs :
    LET f == vf[p]
        local == ParseTokenLocally(f.token, f.at) IN
    (/\ f.pc = "ret" /\ f.fn = "verifyToken" /\ ~f.hit /\ f.at # 0
     /\ Truthy(local)
     /\ \/ f.outcome.kind = "axios" /\ f.outcome.status \notin RejectStatuses
        \/ f.outcome.kind = "thrown"
        \/ f.outcome.kind = "ok" /\ f.failed)
      => f.ret = Ret(local)

\* C27 witness: a 503 for a token that passed the local check and was not
\* cached, answered with the token's subject id
C27_Witness ==
  LET f == vf[HttpProc] IN
  /\ f.pc = "ret"
  /\ ~f.hit
  /\ f.outcome.status = 503
  /\ f.token.id \in Users
  /\ f.ret = Ret(f.token.id)

\* C28: as handleTypingStart / handleTypingStop resumes after its gate, the
\* typing key of (chatId, client.userId) is set / removed and nothing is
\* emitted; the typing:start / typing:stop event is emitted one step later,
\* after the reply of that command, and it is delivered to every other open
\* socket in the chat's room and not to the socket it came from.
C28_TypingSetThenRelayedToOthers ==
  [][\A c \in Conns :
       /\ (ha[c].pc = "verify" /\ ha'[c].pc = "typing" /\ ~ha'[c].failed) =>
            /\ ha[c].kind = "typing:start" =>
                 <<ha[c].chatId, session[c].userId>> \in typing'
            /\ ha[c].kind = "typing:stop" =>
                 <<ha[c].chatId, session[c].userId>> \notin typing'
            /\ emitted' = emitted
       /\ (ha[c].kind \in {"typing:start", "typing:stop"} /\ ha[c].pc = "typing"
           /\ ha'[c].pc = "idle" /\ ~ha[c].failed) =>
            \E e \in emitted' :
              /\ e.ev = ha[c].kind /\ e.chatId = ha[c].chatId /\ e.by = c
              /\ e.userId = session[c].userId
              /\ c \notin Receivers(e)
              /\ \A s \in Conns \ {c} :
                   (sock[s] = "open" /\ <<"chat", ha[c].chatId>> \in rooms[s])
                     => s \in Receivers(e)
       /\ \A e \in emitted' \ emitted :
            (e.ev \in {"typing:start", "typing:stop"} /\ e.by = c) =>
              (ha[c].pc = "typing" /\ ha'[c].pc = "idle" /\ c \notin Receivers(e))]_vars

\* C28 witness: c1 and c2 are in the room of chat X, c1 has sent
\* typing:start for X: the key is set, and the event is delivered to c2 and
\* not to c1
C28_Witness ==
  /\ ha["c1"].kind = "typing:start"
  /\ ha["c1"].result = "done"
  /\ <<"chat", "X">> \in rooms["c1"] \cap rooms["c2"]
  /\ sock["c1"] = "open" /\ sock["c2"] = "open"
  /\ <<"X", session["c1"].userId>> \in typing
  /\ \E e \in emitted : e.ev = "typing:start" /\ e.by = "c1" /\ Receivers(e) = {"c2"}

\* C29: as handleJoinChat resumes after getChatById, it joins the socket to
\* the chat's room and goes on to getMessages only when the chat exists and
\* client.userId is its buyer or its seller; otherwise it returns an error
\* and the socket's rooms are as before.  What getMessages then hands back
\* holds at most DefaultLimit message ids of that chat, in ascending order,
\* and any message of the chat left out is older than all of them and is
\* left out only because the page is full.
C29_JoinOnlyParticipantsPagedHistory ==
  [][\A c \in Conns :
       (ha[c].kind = "chat:join" /\ ha[c].pc = "chat" /\ ha'[c].pc # "chat") =>
         IF ha'[c].pc = "msgs"
         THEN /\ \E ch \in chats :
                   /\ ch.id = ha[c].chatId
                   /\ session[c].userId \in {ch.buyer_id, ch.seller_id}
              /\ rooms'[c] = rooms[c] \cup {<<"chat", ha[c].chatId>>}
              /\ ~ha'[c].failed =>
                   LET h == ha'[c].history
                       ofChat == {i \in 1..Len(messages) :
                                    messages[i].chat_id = ha[c].chatId}
                       got == {h[k] : k \in 1..Len(h)} IN
                   /\ Len(h) <= DefaultLimit
                   /\ got \subseteq ofChat
                   /\ \A k \in 1..(Len(h) - 1) : h[k] < h[k + 1]
                   /\ \A i \in ofChat \ got :
                        Len(h) = DefaultLimit /\ \A j \in got : i < j
         ELSE /\ ha'[c].pc = "idle"
              /\ ha'[c].result \in {"Chat not found", "Access denied", "Failed to join chat"}
              /\ rooms' = rooms]_vars

\* C29 witness: the chat holds one message more than a page; the caller has
\* joined the room of chat X and is handed the 50 latest of X, from message
\* 3 (message 1 is older, message 2 is of chat Y) to the last
C29_Witness ==
  /\ ha["c1"].pc = "msgs"
  /\ ~ha["c1"].failed
  /\ ha["c1"].chatId = "X"
  /\ <<"chat", "X">> \in rooms["c1"]
  /\ Len(ha["c1"].history) = DefaultLimit
  /\ ha["c1"].history[1] = 3
  /\ ha["c1"].history[DefaultLimit] = Len(messages)

\* C30: as handleCreateChat resumes after verifyTokenFast on a session whose
\* userId is neither data.buyerId nor data.sellerId, the handler ends there:
\* no chat is created, no socket joins a room and no chat:created is
\* emitted; when its gate passed, the result is Access denied and nothing at
\* all is emitted.
C30_NonPartyCreatesNothing ==
  [][\A c \in Conns :
       (/\ ha[c].kind = "chat:create" /\ ha[c].pc = "verify" /\ ha'[c].pc # "verify"
        /\ session[c].userId \notin {ha[c].buyerId, ha[c].sellerId}) =>
         LET r == vf[ActProc(c)].ret IN
         /\ ha'[c].pc = "idle"
         /\ chats' = chats
         /\ rooms' = rooms
         /\ \A e \in emitted' \ emitted : e.ev # "chat:created"
         /\ (~r.thrown /\ Truthy(r.id) /\ r.id = session[c].userId) =>
              /\ ha'[c].result = "Access denied"
              /\ emitted' = emitted]_vars

\* C30 witness: a chat:create naming two users other than the caller has
\* returned Access denied; the chats are the initial ones and no chat:created
\* was emitted
C30_Witness ==
  /\ ha["c1"].kind = "chat:create"
  /\ ha["c1"].result = "Access denied"
  /\ sock["c1"] = "open"
  /\ chats = Chats
  /\ \A e \in emitted : e.ev # "chat:created"

C39_LiveKeyInOnlineSet ==
  (/\ faults = 0
   /\ \A c \in Conns : hc[c].pc \in {"idle", "done", "rejected"} /\ ha[c].pc = "idle")
    => \A u \in Users : IsUserOnline(u) => u \in onlineUsers

\* C32: in getOnlineUsers, behind the gate of handleGetOnlineUsers, the
\* answer to each exists is whether the presence key of that user is live
\* when it is issued; a user found live is pushed to the result, a user
\* found not live is removed from online:users and not pushed.  When the
\* handler returns success and nothing else wrote meanwhile (no member
\* added to online:users since it was read, no pruned user added again, no
\* returned user's key run out since), the return leaves online:users alone
\* and it holds no user whose presence key is missing or expired.
C32_OnlineUsersAreLiveAndStalePruned ==
  [][\A c \in Conns :
       LET read == {ha[c].userIds[k] : k \in 1..Len(ha[c].userIds)}
           users == IF ha[c].pc = "exists" /\ ha[c].online
                    THEN Append(ha[c].onlineUserIds, ha[c].userIds[ha[c].next])
                    ELSE ha[c].onlineUserIds
           pruned == read \ {users[k] : k \in 1..Len(users)} IN
       /\ (ha[c].pc \in {"smembers", "exists", "srem"} /\ ha'[c].pc = "exists"
           /\ ha'[c] # ha[c] /\ ~ha'[c].failed) =>
            LET v == ha'[c].userIds[ha'[c].next] IN
            ha'[c].online <=> (v \in DOMAIN presence /\ Live(presence[v], now))
       /\ (ha[c].pc = "exists" /\ ha'[c] # ha[c] /\ ~ha[c].failed) =>
            IF ha[c].online
            THEN /\ onlineUsers' = onlineUsers
                 /\ ha'[c].pc = "exists" => ha'[c].onlineUserIds = users
            ELSE /\ ha'[c].pc = "srem"
                 /\ ha'[c].onlineUserIds = ha[c].onlineUserIds
                 /\ ~ha'[c].failed => ha[c].userIds[ha[c].next] \notin onlineUsers'
       /\ (/\ ha[c].pc \in {"smembers", "exists", "srem"}
           /\ ha'[c].pc = "idle" /\ ha'[c].result = "success"
           /\ onlineUsers \subseteq read
           /\ onlineUsers \cap pruned = {}
           /\ \A k \in 1..Len(users) : Live(presence[users[k]], now)) =>
            /\ onlineUsers' = onlineUsers
            /\ \A w \in onlineUsers' : w \in DOMAIN presence /\ Live(presence[w], now)]_vars

\* C32 witness: user 1 was found live and pushed; the presence key of user
\* 2, a member of online:users, has run out, and the srem of user 2 is done
C32_Witness ==
  /\ ha["c1"].pc = "srem"
  /\ ~ha["c1"].failed
  /\ ha["c1"].userIds = <<1, 2>>
  /\ ha["c1"].next = 2
  /\ ha["c1"].onlineUserIds = <<1>>
  /\ ~Live(presence[2], now)
  /\ onlineUsers = {1}

\* C33 (first half): under fairness of every reply step (every cache, store
\* and identity-service call returns or fails), a handleConnection that is
\* running eventually ends, either on its success path or rejected with
\* the socket closed after an auth:error.
C33_LeavesConnecting ==
  \A c \in Conns :
    (hc[c].pc \in {"verify", "setex", "sadd", "chats"}) ~>
      \/ hc[c].pc = "done"
      \/ /\ hc[c].pc = "rejected"
         /\ sock[c] = "closed"
         /\ \E e \in emitted : e.ev = "auth:error" /\ e.to = ToSocket(c)

\* C33 (second half): a connection that is Closed (its socket is closed) or
\* Rejected (handleConnection emitted auth:error and disconnected) never
\* becomes Authenticated afterwards: handleConnection never stores a user id
\* on its session nor completes its success path for it.
C33_ClosedNeverAuthenticated ==
  [][\A c \in Conns :
       (sock[c] = "closed" \/ hc[c].pc = "rejected") =>
         /\ ~Truthy(session[c].userId) => ~Truthy(session'[c].userId)
         /\ hc[c].pc # "done" => hc'[c].pc # "done"]_vars

\* C34: every open session that is a member of the room of a chat has a
\* session user id that is the buyer or the seller of that chat.
C34_RoomMembersAreParties ==
  \A c \in Conns : \A ch \in chats :
    (sock[c] = "open" /\ RoomOf(ch.id) \in rooms[c]) =>
      (session[c].userId = ch.buyer_id \/ session[c].userId = ch.seller_id)

\* C35: a user who is neither buyer nor seller of a chat causes no event to
\* the room of that chat and no typing entry keyed by that chat: every
\* typing key of a chat and every event emitted to its room bears the user
\* id of one of its two parties.
C35_NonPartyTouchesNoChat ==
  \A ch \in chats :
    /\ \A k \in typing : k[1] = ch.id => (k[2] = ch.buyer_id \/ k[2] = ch.seller_id)
    /\ \A e \in emitted :
         (e.to[1] = "chat" /\ e.to[2] = ch.id) =>
           (e.userId = ch.buyer_id \/ e.userId = ch.seller_id)

\* C36: handleMessage returns an error result only when that call persisted
\* no message: once createMessage has written the row, the handler returns
\* success.
C36_ErrorOnlyWhenNothingPersisted ==
  [][\A c \in Conns :
       (hm[c].pc # "idle" /\ hm'[c].pc = "idle" /\ hm'[c].result # "success") =>
         hm[c].msgId = Null]_vars

\* C37: when handleMessage checks the presence of the recipient of a
\* non-blank text, a recipient who holds an open connection whose
\* handleConnection has completed with that user's id on its session is
\* found online, so that no offline notification is dispatched for them.
C37_NoOfflineEmailToConnectedUser ==
  [][\A c \in Conns :
       (/\ hm[c].pc = "unread" /\ hm'[c].pc = "online" /\ ~hm'[c].failed
        /\ NonBlank(hm[c].text)
        /\ \E s \in Conns : /\ sock[s] = "open"
                            /\ hc[s].pc = "done"
                            /\ session[s].userId = hm[c].recipientId) =>
         hm'[c].online]_vars

\* C38: a message:mark-read on a chat by user u creates read receipts only
\* for messages that belong to that chat and were not sent by u.
C38_ReceiptsOnlyForChatAndOthers ==
  [][\A c \in Conns :
       (ha[c].kind = "message:mark-read" /\ ha[c].pc = "chat") =>
         \A r \in readMessages' \ readMessages :
           /\ r[2] = session[c].userId
           /\ messages[r[1]].chat_id = ha[c].chatId
           /\ messages[r[1]].sender_id # r[2]]_vars

====
